---- MODULE Spec2Model ----
(***************************************************************************)
(* Frame TV catalog / device synchronisation.                              *)
(*                                                                         *)
(* Two services are modelled:                                              *)
(*   - the database service (catalog): gallery images with their image     *)
(*     slots, source-image usage counts, TV content mappings;              *)
(*   - the sync service: Add / Reset sync, Refresh (reconcile) and the     *)
(*     delete endpoint, run against the device and the catalog.            *)
(*                                                                         *)
(* SpecUsage drives the gallery-image handlers of the database service,    *)
(* SpecCalls the usage-counting calls of its source-image repository on    *)
(* counts that start at 0 or more, SpecRepo the same calls and the         *)
(* recalculation on any stored slots and counts.                           *)
(* SpecSync drives the sync-service operations: requests are served one at *)
(* a time, in any order, each in the steps of its handler, with any        *)
(* catalog write or device call able to fail; the TV's user adds and       *)
(* removes content at any moment, also between two steps of a request.     *)
(* SpecRace serves an Add sync and a Refresh at the same time.             *)
(* SpecStream drives the streaming sync endpoint, SpecPlan the planning    *)
(* of the two sync modes on the mappings in every order the catalog can    *)
(* return them, SpecLedger the ledger-based legacy sync, SpecPathSync the  *)
(* path-based legacy sync and SpecPairing the two pairing calls of the     *)
(* legacy module, on every error text of a small vocabulary.               *)
(* SpecLargeCatalog runs Refresh on a catalog of about a thousand          *)
(* mappings, the page size Refresh asks for.                               *)
(***************************************************************************)
EXTENDS Integers, Sequences, FiniteSets, TLC

VARIABLES
    gallery_images, \* ids of the GalleryImage rows
    image_slots,    \* gallery image id -> its ImageSlot rows' source_image_id, by slot
    usage_count,    \* source image id -> SourceImage.usage_count
    mappings,       \* the TVContentMapping rows
    tv_content,     \* device: content id -> display metadata of the content, "none" when not on the TV
    tv_origin,      \* device: content id -> -1 not issued yet, NoId put there by the TV's user,
                    \*         g uploaded by the sync service for gallery image g
    thumbnails,     \* content ids with a file in the thumbnail directory
    sync,           \* the running Add / Reset sync requests
    refresh,        \* the running Refresh request
    delete,         \* the running delete request
    recorded,       \* history: the content ids whose mapping a sync request has saved
    returned,       \* the last call of the database service and what it returned
    stream,         \* the running streaming sync request and the events it has delivered
    plan,           \* the planner's last call: its inputs and the plan it computed
    files,          \* legacy sync: file name -> the file's modification time
    uploaded_files, \* legacy sync: the ledger on disk, file name -> its entry, or NoEntry
    legacy_tv,      \* legacy sync: the device's photos and the number of content ids issued
    legacy,         \* the running ledger-based legacy sync request
    path_sync,      \* the running path-based legacy sync call
    token_file,     \* tv_sync: whether the token file exists
    pairing         \* tv_sync: the running initiate_connection / authorize_with_pin call

usageVars == <<gallery_images, image_slots, usage_count, returned>>

catalogVars == <<mappings, thumbnails>>

deviceVars == <<tv_content, tv_origin>>

taskVars == <<sync, refresh, delete>>

legacyVars == <<files, uploaded_files, legacy_tv, legacy, path_sync>>

pairingVars == <<token_file, pairing>>

endpointVars == <<stream, plan, legacyVars, pairingVars>>

vars == <<gallery_images, image_slots, usage_count, mappings, tv_content, tv_origin,
          thumbnails, sync, refresh, delete, recorded, returned, stream, plan,
          files, uploaded_files, legacy_tv, legacy, path_sync, token_file, pairing>>

\* None, for an optional id (ids start at 1)
NoId == 0

-----------------------------------------------------------------------------
(* Bounds of the database-service model                                    *)

MaxSource == 2          \* SourceImage rows 1..MaxSource exist
MaxGallery == 2         \* gallery image ids are kept within 1..MaxGallery
MaxSlots == 2           \* slots per request
MaxUsage == 4           \* increments are cut off above this count
MaxNegative == 1        \* a SourceImage row is stored with a count of -MaxNegative or more
MaxBatch == 2           \* source image ids per batch call

SourceIds == 1..MaxSource
GalleryIds == 1..MaxGallery

\* a slot's source_image_id: none, an existing SourceImage, or an id that resolves to no row
SlotRefs == {NoId} \cup (1..(MaxSource + 1))

SlotLists == UNION {[1..n -> SlotRefs] : n \in 0..MaxSlots}

\* the source_image_ids of a batch call: existing SourceImages and an id of no row
BatchLists == UNION {[1..n -> 1..(MaxSource + 1)] : n \in 0..MaxBatch}

\* the usage_count a SourceImage row can be stored with (POST /source-images takes
\* the field from the body)
StoredCounts == (0 - MaxNegative)..MaxUsage

-----------------------------------------------------------------------------
(* SourceImageRepository                                                   *)

increment_usage(u, s) ==
    IF s \in SourceIds THEN [u EXCEPT ![s] = @ + 1] ELSE u

\* variant: no clamp
decrement_usage_unclamped(u, s) ==
    IF s \in SourceIds THEN [u EXCEPT ![s] = @ - 1] ELSE u

decrement_usage(u, s) ==
    IF s \in SourceIds
    THEN [u EXCEPT ![s] = IF @ <= 0 THEN 0 ELSE @ - 1]
    ELSE u

\* the bool increment_usage returns: the SourceImage exists
increment_usage_result(u, s) == s \in SourceIds

\* variant: an underflow is reported as a failure
decrement_usage_result_strict(u, s) == s \in SourceIds /\ u[s] > 0

\* the bool decrement_usage returns: the SourceImage exists
decrement_usage_result(u, s) == s \in SourceIds

\* decrement_usage logs an error: the count is already 0 or less
decrement_usage_logged(u, s) == s \in SourceIds /\ u[s] <= 0

\* variant: the batch stops at the first id that resolves to no SourceImage
RECURSIVE batch_increment_usage_stop(_, _)
batch_increment_usage_stop(u, ids) ==
    IF ids = <<>> \/ Head(ids) \notin SourceIds THEN u
    ELSE batch_increment_usage_stop(increment_usage(u, Head(ids)), Tail(ids))

RECURSIVE batch_increment_usage(_, _)
batch_increment_usage(u, ids) ==
    IF ids = <<>> THEN u
    ELSE batch_increment_usage(increment_usage(u, Head(ids)), Tail(ids))

RECURSIVE batch_decrement_usage(_, _)
batch_decrement_usage(u, ids) ==
    IF ids = <<>> THEN u
    ELSE batch_decrement_usage(decrement_usage(u, Head(ids)), Tail(ids))

\* the count batch_increment_usage returns: the calls that returned True
RECURSIVE batch_increment_usage_result(_, _)
batch_increment_usage_result(u, ids) ==
    IF ids = <<>> THEN 0
    ELSE (IF increment_usage_result(u, Head(ids)) THEN 1 ELSE 0)
         + batch_increment_usage_result(increment_usage(u, Head(ids)), Tail(ids))

\* the count batch_decrement_usage returns: the calls that returned True
RECURSIVE batch_decrement_usage_result(_, _)
batch_decrement_usage_result(u, ids) ==
    IF ids = <<>> THEN 0
    ELSE (IF decrement_usage_result(u, Head(ids)) THEN 1 ELSE 0)
         + batch_decrement_usage_result(decrement_usage(u, Head(ids)), Tail(ids))

\* one of the batch's decrements logged an error
RECURSIVE batch_decrement_usage_logged(_, _)
batch_decrement_usage_logged(u, ids) ==
    IF ids = <<>> THEN FALSE
    ELSE \/ decrement_usage_logged(u, Head(ids))
         \/ batch_decrement_usage_logged(decrement_usage(u, Head(ids)), Tail(ids))

\* list(a_set): the elements of a set in some order, each once
RECURSIVE ListOf(_)
ListOf(S) ==
    IF S = {} THEN <<>>
    ELSE LET x == CHOOSE y \in S : \A z \in S : y <= z
         IN <<x>> \o ListOf(S \ {x})

\* SELECT source_image_id, COUNT(*) FROM image_slots ... GROUP BY source_image_id
SlotCount(slots, s) ==
    LET Rows(g) == {i \in 1..Len(slots[g]) : slots[g][i] = s}
        RECURSIVE Sum(_)
        Sum(G) == IF G = {} THEN 0
                  ELSE LET g == CHOOSE x \in G : TRUE
                       IN Cardinality(Rows(g)) + Sum(G \ {g})
    IN Sum(GalleryIds)

\* variant: COUNT(DISTINCT gallery_image_id)
recalculate_all_usage_counts_distinct(slots) ==
    [s \in SourceIds |->
        Cardinality({g \in GalleryIds : \E i \in 1..Len(slots[g]) : slots[g][i] = s})]

recalculate_all_usage_counts(slots) ==
    [s \in SourceIds |-> SlotCount(slots, s)]

\* the rows of the GROUP BY query that resolve to a SourceImage
CountedSources(slots) == {s \in SourceIds : SlotCount(slots, s) > 0}

\* the dict recalculate_all_usage_counts returns; the loop over the query's rows
\* reads each count after the first loop has set it to 0
recalculate_summary(u, slots) ==
    LET zeroed == [s \in SourceIds |-> 0]
    IN [total_images |-> Cardinality(SourceIds),
        updated_count |-> Cardinality(CountedSources(slots)),
        negative_counts_corrected |->
            Cardinality({s \in CountedSources(slots) : zeroed[s] < 0})]

\* what a call of the database service returned: `ok` the bool of increment_usage
\* and decrement_usage, `ids` and `count` the source_image_ids and the count of a
\* batch call, `summary` the dict of
\* recalculate_all_usage_counts; error_logged: the call logged an underflow
NoSummary == [total_images |-> 0, updated_count |-> 0, negative_counts_corrected |-> 0]

Response(op, id, ok, count, error_logged, summary) ==
    [op |-> op, id |-> id, ids |-> <<>>, ok |-> ok, count |-> count,
     error_logged |-> error_logged, summary |-> summary]

NoCall == Response("none", NoId, FALSE, 0, FALSE, NoSummary)

\* the response of a gallery_images handler, for gallery image g
Handled(op, g) == Response(op, g, TRUE, 0, FALSE, NoSummary)

-----------------------------------------------------------------------------
(* GalleryImageRepository / gallery_images router                          *)

\* INTEGER PRIMARY KEY of SQLite: one more than the largest id in use
NextGalleryId ==
    IF gallery_images = {} THEN 1
    ELSE 1 + (CHOOSE g \in gallery_images : \A h \in gallery_images : h <= g)

\* the source ids of a slot list for which the usage count is maintained:
\* the slot has a source_image_id and it resolves to a SourceImage
RECURSIVE ResolvedRefs(_)
ResolvedRefs(sl) ==
    IF sl = <<>> THEN <<>>
    ELSE IF Head(sl) # NoId /\ Head(sl) \in SourceIds
         THEN <<Head(sl)>> \o ResolvedRefs(Tail(sl))
         ELSE ResolvedRefs(Tail(sl))

\* [slot.source_image_id for slot in slots if slot.source_image_id]
RECURSIVE SlotSourceIds(_)
SlotSourceIds(sl) ==
    IF sl = <<>> THEN <<>>
    ELSE IF Head(sl) # NoId
         THEN <<Head(sl)>> \o SlotSourceIds(Tail(sl))
         ELSE SlotSourceIds(Tail(sl))

SeqToSet(q) == {q[i] : i \in 1..Len(q)}

WithinMaxUsage(u) == \A s \in SourceIds : u[s] <= MaxUsage

create_gallery_image(sl) ==
    LET g == NextGalleryId
        u == batch_increment_usage(usage_count, ResolvedRefs(sl))
    IN /\ g \in GalleryIds
       /\ WithinMaxUsage(u)
       /\ gallery_images' = gallery_images \cup {g}
       /\ image_slots' = [image_slots EXCEPT ![g] = sl]
       /\ usage_count' = u
       /\ returned' = Handled("create_gallery_image", g)

\* variant: one decrement per old slot, one increment per new slot
UpdateUsage_per_slot(u, old, new) ==
    batch_increment_usage(batch_decrement_usage(u, SlotSourceIds(old)), ResolvedRefs(new))

\* the usage counts after a slot replacement, as update_gallery_image computes them
UpdateUsage(u, old, new) ==
    LET old_source_ids == SeqToSet(SlotSourceIds(old))
        new_source_ids == SeqToSet(ResolvedRefs(new))
        ids_to_decrement == ListOf(old_source_ids \ new_source_ids)
        ids_to_increment == ListOf(new_source_ids \ old_source_ids)
    IN batch_increment_usage(batch_decrement_usage(u, ids_to_decrement),
                             ids_to_increment)

update_gallery_image(g, sl) ==
    LET u == UpdateUsage(usage_count, image_slots[g], sl)
    IN /\ g \in gallery_images
       /\ WithinMaxUsage(u)
       /\ image_slots' = [image_slots EXCEPT ![g] = sl]
       /\ usage_count' = u
       /\ returned' = Handled("update_gallery_image", g)
       /\ UNCHANGED gallery_images

delete_gallery_image(g) ==
    /\ g \in gallery_images
    /\ gallery_images' = gallery_images \ {g}
    /\ image_slots' = [image_slots EXCEPT ![g] = <<>>]
    /\ usage_count' = batch_decrement_usage(usage_count, SlotSourceIds(image_slots[g]))
    /\ returned' = Handled("delete_gallery_image", g)

\* the slots' source ids of every requested image that exists, in request order
RECURSIVE AllSourceImageIds(_, _)
AllSourceImageIds(slots, ids) ==
    IF ids = <<>> THEN <<>>
    ELSE IF Head(ids) \in gallery_images
         THEN SlotSourceIds(slots[Head(ids)]) \o AllSourceImageIds(slots, Tail(ids))
         ELSE AllSourceImageIds(slots, Tail(ids))

delete_multiple_gallery_images(G) ==
    /\ G # {}
    /\ gallery_images' = gallery_images \ G
    /\ image_slots' = [g \in GalleryIds |-> IF g \in G THEN <<>> ELSE image_slots[g]]
    /\ usage_count' = batch_decrement_usage(usage_count,
                                            AllSourceImageIds(image_slots, ListOf(G)))
    /\ returned' = Handled("delete_multiple_gallery_images", NoId)

recalculate_usage_counts ==
    /\ usage_count' = recalculate_all_usage_counts(image_slots)
    /\ returned' = Response("recalculate_usage_counts", NoId, TRUE, 0, FALSE,
                             recalculate_summary(usage_count, image_slots))
    /\ UNCHANGED <<gallery_images, image_slots>>

\* the repository's calls, one at a time
IncrementUsage(s) ==
    /\ WithinMaxUsage(increment_usage(usage_count, s))
    /\ usage_count' = increment_usage(usage_count, s)
    /\ returned' = Response("increment_usage", s, increment_usage_result(usage_count, s),
                             0, FALSE, NoSummary)
    /\ UNCHANGED <<gallery_images, image_slots>>

DecrementUsage(s) ==
    /\ usage_count' = decrement_usage(usage_count, s)
    /\ returned' = Response("decrement_usage", s, decrement_usage_result(usage_count, s),
                             0, decrement_usage_logged(usage_count, s), NoSummary)
    /\ UNCHANGED <<gallery_images, image_slots>>

BatchIncrementUsage(ids) ==
    /\ WithinMaxUsage(batch_increment_usage(usage_count, ids))
    /\ usage_count' = batch_increment_usage(usage_count, ids)
    /\ returned' = [Response("batch_increment_usage", NoId, TRUE,
                              batch_increment_usage_result(usage_count, ids),
                              FALSE, NoSummary) EXCEPT !.ids = ids]
    /\ UNCHANGED <<gallery_images, image_slots>>

BatchDecrementUsage(ids) ==
    /\ usage_count' = batch_decrement_usage(usage_count, ids)
    /\ returned' = [Response("batch_decrement_usage", NoId, TRUE,
                              batch_decrement_usage_result(usage_count, ids),
                              batch_decrement_usage_logged(usage_count, ids), NoSummary)
                        EXCEPT !.ids = ids]
    /\ UNCHANGED <<gallery_images, image_slots>>

-----------------------------------------------------------------------------
(* Bounds of the sync-service model                                        *)

MaxContent == 2         \* the device issues content ids 1..MaxContent
MaxTargets == 2         \* gallery image ids per sync request
MaxDeleteIds == 2       \* content ids per delete request

ContentIds == 1..MaxContent

\* the display metadata the device reports for a content item (category, width,
\* height, matte, portrait matte, image date, content type), as one value
Metas == {"m1", "m2"}
NoMeta == "none"

SyncTasks == {"s1"}

\* a request's gallery_image_ids: ids of gallery images and an id that resolves to none
TargetIds == 1..(MaxGallery + 1)
TargetLists == UNION {[1..n -> TargetIds] : n \in 1..MaxTargets}

DeleteLists == UNION {[1..n -> ContentIds] : n \in 1..MaxDeleteIds}

-----------------------------------------------------------------------------
(* tv_content router and TVContentRepository of the database service       *)

\* the largest page size list_tv_content accepts: Query(100, ge=1, le=1000)
MaxPageLimit == 1000

MaxOf(S) == CHOOSE x \in S : \A y \in S : y <= x

\* INTEGER PRIMARY KEY of SQLite: one more than the largest id in use
NextMappingId(rows) ==
    IF rows = {} THEN 1 ELSE 1 + MaxOf({m.id : m \in rows})

Field(body, f, default) == IF f \in DOMAIN body THEN body[f] ELSE default

\* a request body read as a TVContentMapping: a field the body does not carry takes
\* the model's default (uploaded_at: default_factory=utcnow, evaluated at `now`)
TVContentMapping(body, now) ==
    [id |-> Field(body, "id", NoId),
     gallery_image_id |-> Field(body, "gallery_image_id", NoId),
     tv_content_id |-> Field(body, "tv_content_id", NoId),
     uploaded_at |-> Field(body, "uploaded_at", now),
     last_verified_at |-> Field(body, "last_verified_at", "null"),
     sync_status |-> Field(body, "sync_status", "pending"),
     tv_metadata |-> Field(body, "tv_metadata", NoMeta)]

get_by_tv_content_id(rows, c) == {m \in rows : m.tv_content_id = c}

get_by_gallery_image_id(rows, g) == {m \in rows : m.gallery_image_id = g}

\* Repository.get_all(skip, limit): the rows in id order, `limit` of them after `skip`
get_all(rows, skip, limit) ==
    {m \in rows :
        LET rank == Cardinality({n \in rows : n.id <= m.id})
        IN skip < rank /\ rank <= skip + limit}

\* GET /tv-content?page=&limit= : is the request accepted (422 otherwise)
ListAccepted(page, limit) == page >= 1 /\ limit >= 1 /\ limit <= MaxPageLimit

list_tv_content(rows, page, limit) == get_all(rows, (page - 1) * limit, limit)

\* variant: no check for an existing row
CreateAccepted_always(rows, body) == TRUE

\* POST /tv-content : rejected (400) when the content id already has a row
CreateAccepted(rows, body) == get_by_tv_content_id(rows, body.tv_content_id) = {}

create_tv_content(rows, body, now) ==
    IF CreateAccepted(rows, body)
    THEN rows \cup {[TVContentMapping(body, now) EXCEPT !.id = NextMappingId(rows)]}
    ELSE rows

\* PUT /tv-content/{id} : 404 when no row has the id
UpdateAccepted(rows, id) == \E m \in rows : m.id = id

\* setattr(existing, field, value) for every field of the parsed body but id; the
\* body of a Refresh carries no tv_content_id, a required field: it stays unset in
\* the parsed model and is not written
UpdatedRow(existing, body, now) ==
    LET parsed == TVContentMapping(body, now)
    IN [parsed EXCEPT !.id = existing.id,
                      !.tv_content_id = IF "tv_content_id" \in DOMAIN body
                                        THEN body.tv_content_id
                                        ELSE existing.tv_content_id]

update_tv_content(rows, id, body, now) ==
    {IF m.id = id THEN UpdatedRow(m, body, now) ELSE m : m \in rows}

\* DELETE /tv-content/{id} : 404 when no row has the id
delete_tv_content_mapping(rows, id) == {m \in rows : m.id # id}

\* DELETE /tv-content/by-tv-id/{tv_content_id} : 404 when no row has the content id
delete_by_tv_content_id(rows, c) == {m \in rows : m.tv_content_id # c}

-----------------------------------------------------------------------------
(* The device (SamsungTVAsyncArt)                                          *)

OnTv == {c \in ContentIds : tv_content[c] # NoMeta}

Issued == {c \in ContentIds : tv_origin[c] # -1}

\* the device names each new content item with the next unused id
NextContentId == Cardinality(Issued) + 1

\* tv.upload(...): the upload of gallery image g's file is stored as content c
DeviceUpload(c, g) ==
    /\ c = NextContentId
    /\ c \in ContentIds
    /\ tv_content' = [tv_content EXCEPT ![c] = "m1"]
    /\ tv_origin' = [tv_origin EXCEPT ![c] = g]

\* tv.delete_list(ids)
DeviceDelete(C) ==
    /\ tv_content' = [c \in ContentIds |-> IF c \in C THEN NoMeta ELSE tv_content[c]]
    /\ UNCHANGED tv_origin

\* the TV's user puts an image on the TV, removes one
TvUserUpload(meta) ==
    /\ NextContentId \in ContentIds
    /\ tv_content' = [tv_content EXCEPT ![NextContentId] = meta]
    /\ tv_origin' = [tv_origin EXCEPT ![NextContentId] = NoId]
    /\ UNCHANGED <<usageVars, endpointVars, recorded, catalogVars, taskVars>>

TvUserDelete(c) ==
    /\ c \in OnTv
    /\ tv_content' = [tv_content EXCEPT ![c] = NoMeta]
    /\ UNCHANGED <<tv_origin, usageVars, endpointVars, recorded, catalogVars, taskVars>>

-----------------------------------------------------------------------------
(* tv_sync_smart: Add mode and Reset mode                                  *)

\* the page size sync_reset_mode asks the catalog for
ResetListLimit == 10000

FileName(g) == [name |-> g, kind |-> "jpg"]
IdName(g) == [name |-> g, kind |-> "ID"]

Failure(filename, error) == [filename |-> filename, error |-> error]

SyncResult(success, synced, failed, total, successful) ==
    [success |-> success, synced |-> synced, failed |-> failed,
     total |-> total, successful |-> successful]

IdleSync ==
    [pc |-> "idle", mode |-> "none", gallery_image_ids |-> <<>>,
     images_to_upload |-> <<>>, mappings_to_delete |-> {}, next |-> 1,
     content_id |-> NoId, synced |-> <<>>, failed |-> <<>>, session |-> "none",
     tv_deleted |-> FALSE, slideshow |-> "none",
     result |-> SyncResult(FALSE, <<>>, <<>>, 0, 0)]

\* the requested ids that resolve to a gallery image, in request order
GalleryImagesOf(ids) ==
    LET Found(g) == g \in gallery_images IN SelectSeq(ids, Found)

\* one "not found" failure for each requested id that does not resolve
RECURSIVE NotFoundFailures(_)
NotFoundFailures(ids) ==
    IF ids = <<>> THEN <<>>
    ELSE IF Head(ids) \in gallery_images
         THEN NotFoundFailures(Tail(ids))
         ELSE <<Failure(IdName(Head(ids)), "Gallery image not found in database")>>
              \o NotFoundFailures(Tail(ids))

\* variant: every image
AddImagesToUpload_all(rows, images) == images

\* Add mode: the images without a mapping
AddImagesToUpload(rows, images) ==
    LET Missing(g) == get_by_gallery_image_id(rows, g) = {} IN SelectSeq(images, Missing)

AppManaged(rows) == {m \in rows : m.gallery_image_id # NoId}

\* Reset mode: the app-managed mappings outside the selection
ResetMappingsToDelete(all_mappings, images) ==
    {m \in AppManaged(all_mappings) : m.gallery_image_id \notin SeqToSet(images)}

\* Reset mode: the images no app-managed mapping refers to
ResetImagesToUpload(all_mappings, images) ==
    LET existing_gallery_ids == {m.gallery_image_id : m \in AppManaged(all_mappings)}
        Missing(g) == g \notin existing_gallery_ids
    IN SelectSeq(images, Missing)

Returned(task, result) ==
    [task EXCEPT !.pc = "done", !.result = result]

\* variant: the except path reports success
Raised_ok(task) ==
    Returned(task, SyncResult(TRUE, task.synced, task.failed,
                              Len(task.gallery_image_ids), Len(task.synced)))

\* the operation's except path: return (False, synced, failed, total, len(synced))
Raised(task) ==
    Returned(task, SyncResult(FALSE, task.synced, task.failed,
                              Len(task.gallery_image_ids), Len(task.synced)))

\* sync_add_mode up to the connection: resolve the ids, plan the uploads
sync_add_mode_plan(t, ids) ==
    LET images == GalleryImagesOf(ids)
        to_upload == AddImagesToUpload(mappings, images)
        task == [IdleSync EXCEPT !.mode = "add", !.gallery_image_ids = ids,
                                 !.failed = NotFoundFailures(ids),
                                 !.images_to_upload = to_upload]
    IN sync' = [sync EXCEPT ![t] =
            IF images = <<>>
            THEN Returned(task, SyncResult(FALSE, <<>>, task.failed, Len(ids), 0))
            ELSE IF to_upload = <<>>
            THEN Returned(task, SyncResult(TRUE, <<>>, <<>>, Len(ids), 0))
            ELSE [task EXCEPT !.pc = "connect"]]

\* sync_reset_mode up to the connection: resolve the ids, list the mappings, plan
sync_reset_mode_plan(t, ids) ==
    LET images == GalleryImagesOf(ids)
        task == [IdleSync EXCEPT !.mode = "reset", !.gallery_image_ids = ids,
                                 !.failed = NotFoundFailures(ids)]
        all_mappings == list_tv_content(mappings, 1, ResetListLimit)
    IN sync' = [sync EXCEPT ![t] =
            IF ~ListAccepted(1, ResetListLimit)
            THEN Raised(task)
            ELSE [task EXCEPT !.pc = "connect",
                              !.mappings_to_delete = ResetMappingsToDelete(all_mappings, images),
                              !.images_to_upload = ResetImagesToUpload(all_mappings, images)]]

SyncBegin(t, mode, ids) ==
    /\ sync[t].pc = "idle"
    /\ IF mode = "reset" THEN sync_reset_mode_plan(t, ids) ELSE sync_add_mode_plan(t, ids)
    /\ UNCHANGED <<usageVars, endpointVars, recorded, catalogVars, deviceVars, refresh, delete>>

\* connect, check the device; Reset mode then deletes the unwanted images
\* (tv_deleted: tv.delete_list was called and did not raise)
SyncConnect(t) ==
    /\ sync[t].pc = "connect"
    /\ \E alive, artmode, delete_ok \in BOOLEAN, lost \in SUBSET sync[t].mappings_to_delete :
        LET task == [sync[t] EXCEPT !.session = "open"]
            to_delete == task.mappings_to_delete
            content_ids_to_delete == {m.tv_content_id : m \in to_delete}
        IN IF ~alive
           THEN /\ lost = {} /\ delete_ok
                /\ sync' = [sync EXCEPT ![t] = Raised(task)]
                /\ UNCHANGED <<mappings, deviceVars>>
           ELSE IF ~artmode
           THEN /\ lost = {} /\ delete_ok
                /\ sync' = [sync EXCEPT ![t] = Raised([task EXCEPT !.session = "closed"])]
                /\ UNCHANGED <<mappings, deviceVars>>
           ELSE /\ sync' = [sync EXCEPT ![t] =
                        [task EXCEPT !.pc = IF task.images_to_upload = <<>>
                                            THEN "finish" ELSE "upload",
                                     !.next = 1,
                                     !.tv_deleted = to_delete # {} /\ delete_ok]]
                /\ IF to_delete # {} /\ delete_ok
                   THEN /\ DeviceDelete(content_ids_to_delete)
                        /\ mappings' = {m \in mappings :
                                          m.id \notin {d.id : d \in to_delete \ lost}}
                   ELSE /\ lost = {}
                        /\ UNCHANGED <<mappings, deviceVars>>
    /\ UNCHANGED <<usageVars, endpointVars, recorded, thumbnails, refresh, delete>>

\* variant: the loop ends after the item
Advance_stop(task) ==
    [task EXCEPT !.next = @ + 1, !.content_id = NoId, !.pc = "finish"]

Advance(task) ==
    [task EXCEPT !.next = @ + 1,
                 !.content_id = NoId,
                 !.pc = IF task.next + 1 > Len(task.images_to_upload)
                        THEN "finish" ELSE "upload"]

\* one item of the upload loop, up to the device's answer
SyncUpload(t) ==
    /\ sync[t].pc = "upload"
    /\ LET task == sync[t]
           g == task.images_to_upload[task.next]
       IN \/ /\ sync' = [sync EXCEPT ![t] = Advance(
                    [task EXCEPT !.failed = Append(@, Failure(FileName(g), "File not found"))])]
             /\ UNCHANGED deviceVars
          \/ /\ sync' = [sync EXCEPT ![t] = Advance(
                    [task EXCEPT !.failed = Append(@, Failure(FileName(g), "Upload failed"))])]
             /\ UNCHANGED deviceVars
          \/ \E c \in ContentIds :
                /\ DeviceUpload(c, g)
                /\ sync' = [sync EXCEPT ![t] = [task EXCEPT !.pc = "record", !.content_id = c]]
    /\ UNCHANGED <<usageVars, endpointVars, recorded, catalogVars, refresh, delete>>

UploadedMapping(g, c) ==
    [gallery_image_id |-> g, tv_content_id |-> c, uploaded_at |-> "t_sync",
     last_verified_at |-> "t_sync", sync_status |-> "synced"]

\* the same item, after a successful upload: record the mapping
SyncRecord(t) ==
    /\ sync[t].pc = "record"
    /\ \E catalog_ok \in BOOLEAN :
        LET task == sync[t]
            g == task.images_to_upload[task.next]
            body == UploadedMapping(g, task.content_id)
        IN IF catalog_ok /\ CreateAccepted(mappings, body)
           THEN /\ mappings' = create_tv_content(mappings, body, "t_post")
                /\ recorded' = recorded \cup {task.content_id}
                /\ sync' = [sync EXCEPT ![t] = Advance(
                       [task EXCEPT !.synced = Append(@, FileName(g))])]
           ELSE /\ UNCHANGED <<mappings, recorded>>
                /\ sync' = [sync EXCEPT ![t] = Advance(
                       [task EXCEPT !.failed = Append(@,
                            Failure(FileName(g), "Failed to save mapping"))])]
    /\ UNCHANGED <<usageVars, endpointVars, thumbnails, deviceVars, refresh, delete>>

\* how the slideshow step can end: the settings were read and pushed to the device, the
\* read of the settings raised, the push to the device raised
SlideshowOutcomes == {"applied", "settings_failed", "push_failed"}

\* variant: the failure leaves the function
apply_slideshow_settings_raising(outcome) == outcome # "applied"

\* apply_slideshow_settings: TRUE when it raises to its caller; its except clause catches
\* every failure of the read and of the push
apply_slideshow_settings(outcome) == FALSE

\* slideshow settings (best effort), close, return
SyncFinish(t) ==
    /\ sync[t].pc = "finish"
    /\ \E outcome \in SlideshowOutcomes :
          LET applied == [sync[t] EXCEPT !.slideshow = outcome]
              task == [applied EXCEPT !.session = "closed"]
              success == IF task.mode = "reset"
                         THEN Len(task.synced) > 0 \/ task.mappings_to_delete # {}
                         ELSE Len(task.synced) > 0
          IN sync' = [sync EXCEPT ![t] =
                 IF apply_slideshow_settings(outcome)
                     THEN Raised(applied)
                     ELSE Returned(task, SyncResult(success, task.synced, task.failed,
                                           Len(task.gallery_image_ids), Len(task.synced)))]
    /\ UNCHANGED <<usageVars, endpointVars, recorded, catalogVars, deviceVars, refresh, delete>>

\* the response has been sent
SyncReturn(t) ==
    /\ sync[t].pc = "done"
    /\ sync' = [sync EXCEPT ![t] = IdleSync]
    /\ UNCHANGED <<usageVars, endpointVars, recorded, catalogVars, deviceVars, refresh, delete>>

-----------------------------------------------------------------------------
(* tv_refresh: refresh_tv_state                                            *)

\* the page size refresh_tv_state asks the catalog for
RefreshListLimit == 1000

RefreshResult(removed, added, updated, total_on_tv, synced_via_app, manual_uploads) ==
    [removed |-> removed, added |-> added, updated |-> updated,
     total_on_tv |-> total_on_tv, synced_via_app |-> synced_via_app,
     manual_uploads |-> manual_uploads]

IdleRefresh ==
    [pc |-> "idle",
     tv_content_metadata |-> [c \in ContentIds |-> NoMeta],
     db_mappings |-> {},
     removed |-> 0, added |-> 0, updated |-> 0,
     write_failed |-> FALSE,
     thumbnail_step |-> "none",
     session |-> "none",
     result |-> RefreshResult(0, 0, 0, 0, 0, 0)]

\* tv_content_ids: the content ids of the listing
ListedIds(r) == {c \in ContentIds : r.tv_content_metadata[c] # NoMeta}

\* db_tv_content_ids: the content ids of the mapping snapshot
SnapshotIds(r) == {m.tv_content_id : m \in r.db_mappings}

\* variant: the status left to the model's default
ManualMapping_pending(c, meta) ==
    [tv_content_id |-> c, tv_metadata |-> meta]

ManualMapping(c, meta) ==
    [tv_content_id |-> c, sync_status |-> "manual", tv_metadata |-> meta]

MetadataUpdate(meta) == [tv_metadata |-> meta]

\* variant: the thumbnail directory is cleared before the device is checked
RefreshStart_clear ==
    /\ refresh.pc = "idle"
    /\ \E alive, artmode, listed \in BOOLEAN :
        refresh' =
            IF ~alive
            THEN [IdleRefresh EXCEPT !.pc = "failed", !.session = "open"]
            ELSE IF ~artmode
            THEN [IdleRefresh EXCEPT !.pc = "failed", !.session = "closed"]
            ELSE IF ~listed
            THEN [IdleRefresh EXCEPT !.pc = "failed", !.session = "open"]
            ELSE [IdleRefresh EXCEPT !.pc = "snapshot", !.session = "open",
                                     !.tv_content_metadata = tv_content]
    /\ thumbnails' = {}
    /\ UNCHANGED <<usageVars, endpointVars, recorded, mappings, deviceVars, sync, delete>>

\* connect, check the device, read its listing
RefreshStart ==
    /\ refresh.pc = "idle"
    /\ \E alive, artmode, listed \in BOOLEAN :
        refresh' =
            IF ~alive
            THEN [IdleRefresh EXCEPT !.pc = "failed", !.session = "open"]
            ELSE IF ~artmode
            THEN [IdleRefresh EXCEPT !.pc = "failed", !.session = "closed"]
            ELSE IF ~listed
            THEN [IdleRefresh EXCEPT !.pc = "failed", !.session = "open"]
            ELSE [IdleRefresh EXCEPT !.pc = "snapshot", !.session = "open",
                                     !.tv_content_metadata = tv_content]
    /\ UNCHANGED <<usageVars, endpointVars, recorded, catalogVars, deviceVars, sync, delete>>

\* read the catalog's mappings
RefreshSnapshot ==
    /\ refresh.pc = "snapshot"
    /\ refresh' =
          IF ListAccepted(1, RefreshListLimit)
          THEN [refresh EXCEPT !.pc = "remove",
                               !.db_mappings = list_tv_content(mappings, 1, RefreshListLimit)]
          ELSE [refresh EXCEPT !.pc = "failed"]
    /\ UNCHANGED <<usageVars, endpointVars, recorded, catalogVars, deviceVars, sync, delete>>

\* variant: every content id of the snapshot
RemovedIds_all(r) == SnapshotIds(r)

\* the snapshot's content ids that Refresh removes: those the listing lacks
RemovedIds(r) == {c \in SnapshotIds(r) : c \notin ListedIds(r)}

\* the listing's content ids that Refresh adds: those the snapshot lacks
AddedIds(r) == {c \in ListedIds(r) : c \notin SnapshotIds(r)}

\* the listing's content ids that Refresh updates: those the snapshot has
UpdatedIds(r) == {c \in ListedIds(r) : c \in SnapshotIds(r)}

\* the remove loop, the deletes for the content ids of `lost` failing
RemoveMappings(lost) ==
    /\ refresh.pc = "remove"
    /\ LET done == {c \in RemovedIds(refresh) \ lost :
                        get_by_tv_content_id(mappings, c) # {}}
       IN /\ mappings' = {m \in mappings :
                              m.tv_content_id \notin RemovedIds(refresh) \ lost}
          /\ refresh' = [refresh EXCEPT
                 !.pc = "add",
                 !.removed = Cardinality(done),
                 !.write_failed = @ \/ done # RemovedIds(refresh)]
    /\ UNCHANGED <<usageVars, endpointVars, recorded, thumbnails, deviceVars, sync, delete>>

\* delete the mappings of the content that is no longer on the TV
RefreshRemove == \E lost \in SUBSET RemovedIds(refresh) : RemoveMappings(lost)

\* the rows after creating a manual mapping for each content id of `ids` in turn,
\* but for those of `lost`
RECURSIVE CreateManualMappings(_, _, _, _)
CreateManualMappings(rows, ids, lost, r) ==
    IF ids = <<>> THEN rows
    ELSE LET c == Head(ids)
             body == ManualMapping(c, r.tv_content_metadata[c])
         IN CreateManualMappings(
                IF c \in lost THEN rows ELSE create_tv_content(rows, body, "t_post"),
                Tail(ids), lost, r)

\* create a manual mapping for the content the catalog does not know
RefreshAdd ==
    /\ refresh.pc = "add"
    /\ \E lost \in SUBSET AddedIds(refresh) :
        LET done == {c \in AddedIds(refresh) \ lost :
                        get_by_tv_content_id(mappings, c) = {}}
        IN /\ mappings' = CreateManualMappings(mappings, ListOf(AddedIds(refresh)),
                                               lost, refresh)
           /\ refresh' = [refresh EXCEPT
                  !.pc = "update",
                  !.added = Cardinality(done),
                  !.write_failed = @ \/ done # AddedIds(refresh)]
    /\ UNCHANGED <<usageVars, endpointVars, recorded, thumbnails, deviceVars, sync, delete>>

\* db_tv_content_ids[c]: the snapshot's row of a content id
SnapshotRow(r, c) == CHOOSE m \in r.db_mappings : m.tv_content_id = c

RECURSIVE UpdateMappings(_, _, _, _)
UpdateMappings(rows, ids, lost, r) ==
    IF ids = <<>> THEN rows
    ELSE LET c == Head(ids)
             id == SnapshotRow(r, c).id
         IN UpdateMappings(
                IF c \in lost THEN rows
                ELSE update_tv_content(rows, id,
                         MetadataUpdate(r.tv_content_metadata[c]), "t_put"),
                Tail(ids), lost, r)

\* send the listing's metadata for the mappings the snapshot has
RefreshUpdate ==
    /\ refresh.pc = "update"
    /\ \E lost \in SUBSET UpdatedIds(refresh) :
        LET done == {c \in UpdatedIds(refresh) \ lost :
                        UpdateAccepted(mappings, SnapshotRow(refresh, c).id)}
        IN /\ mappings' = UpdateMappings(mappings, ListOf(UpdatedIds(refresh)),
                                         lost, refresh)
           /\ refresh' = [refresh EXCEPT
                  !.pc = "thumbnails",
                  !.updated = Cardinality(done),
                  !.write_failed = @ \/ done # UpdatedIds(refresh)]
    /\ UNCHANGED <<usageVars, endpointVars, recorded, thumbnails, deviceVars, sync, delete>>

\* how the thumbnail step can end: every thumbnail saved, or a raise while clearing the
\* directory, while reading the protocol version, while fetching, while saving
ThumbnailOutcomes ==
    {"saved", "clear_failed", "version_failed", "fetch_failed", "save_failed"}

\* the thumbnail files the step can leave behind
ThumbnailsLeft(outcome, before, fetched) ==
    CASE outcome = "saved" -> {fetched}
      [] outcome = "clear_failed" -> SUBSET before \ {{}}
      [] outcome = "save_failed" -> SUBSET fetched
      [] OTHER -> {{}}

\* variant: a failure of the thumbnail step leaves refresh_tv_state
RefreshThumbnails_raising ==
    /\ refresh.pc = "thumbnails"
    /\ \E outcome \in ThumbnailOutcomes :
        /\ thumbnails' \in ThumbnailsLeft(outcome, thumbnails, ListedIds(refresh) \cap OnTv)
        /\ refresh' = IF outcome = "saved"
                      THEN [refresh EXCEPT !.pc = "count", !.session = "closed",
                                           !.thumbnail_step = outcome]
                      ELSE [refresh EXCEPT !.pc = "failed", !.thumbnail_step = outcome]
    /\ UNCHANGED <<usageVars, endpointVars, recorded, mappings, deviceVars, sync, delete>>

\* clear the thumbnail directory, fetch and save the listing's thumbnails (a failure is
\* logged), close
RefreshThumbnails ==
    /\ refresh.pc = "thumbnails"
    /\ \E outcome \in ThumbnailOutcomes :
        /\ thumbnails' \in ThumbnailsLeft(outcome, thumbnails, ListedIds(refresh) \cap OnTv)
        /\ refresh' = [refresh EXCEPT !.pc = "count", !.session = "closed",
                                      !.thumbnail_step = outcome]
    /\ UNCHANGED <<usageVars, endpointVars, recorded, mappings, deviceVars, sync, delete>>

\* count the mappings as they are now, return
RefreshCount ==
    /\ refresh.pc = "count"
    /\ refresh' =
          IF ListAccepted(1, RefreshListLimit)
          THEN LET all_mappings == list_tv_content(mappings, 1, RefreshListLimit)
               IN [refresh EXCEPT
                      !.pc = "done",
                      !.result = RefreshResult(
                          refresh.removed, refresh.added, refresh.updated,
                          Cardinality(ListedIds(refresh)),
                          Cardinality({m \in all_mappings : m.gallery_image_id # NoId}),
                          Cardinality({m \in all_mappings : m.gallery_image_id = NoId}))]
          ELSE [refresh EXCEPT !.pc = "failed"]
    /\ UNCHANGED <<usageVars, endpointVars, recorded, catalogVars, deviceVars, sync, delete>>

\* the response (the counts, or the error) has been sent
RefreshReturn ==
    /\ refresh.pc \in {"done", "failed"}
    /\ refresh' = IdleRefresh
    /\ UNCHANGED <<usageVars, endpointVars, recorded, catalogVars, deviceVars, sync, delete>>

-----------------------------------------------------------------------------
(* main: the delete endpoint                                               *)

IdleDelete ==
    [pc |-> "idle", tv_content_ids |-> <<>>, next |-> 1,
     deleted |-> <<>>, failed |-> <<>>, session |-> "none"]

\* read the settings, connect, check the device
DeleteStart(ids) ==
    /\ delete.pc = "idle"
    /\ \E alive, artmode \in BOOLEAN :
        delete' = IF alive /\ artmode
                  THEN [IdleDelete EXCEPT !.pc = "items", !.tv_content_ids = ids,
                                          !.session = "open"]
                  ELSE [IdleDelete EXCEPT !.pc = "failed", !.tv_content_ids = ids,
                                          !.session = "closed"]
    /\ UNCHANGED <<usageVars, endpointVars, recorded, catalogVars, deviceVars, sync, refresh>>

\* variant: the database record and the thumbnail go first, the TV after them
DeleteItem_catalog_first ==
    /\ delete.pc = "items"
    /\ \E device_ok, catalog_ok, thumbnail_ok \in BOOLEAN :
        LET c == delete.tv_content_ids[delete.next]
            last == delete.next + 1 > Len(delete.tv_content_ids)
            step == [delete EXCEPT !.next = @ + 1,
                                   !.pc = IF last THEN "done" ELSE "items",
                                   !.session = IF last THEN "closed" ELSE @]
        IN /\ mappings' = IF catalog_ok THEN delete_by_tv_content_id(mappings, c)
                          ELSE mappings
           /\ thumbnails' = IF thumbnail_ok THEN thumbnails \ {c} ELSE thumbnails
           /\ IF device_ok
              THEN /\ DeviceDelete({c})
                   /\ delete' = [step EXCEPT !.deleted = Append(@, c)]
              ELSE /\ delete' = [step EXCEPT !.failed = Append(@, c)]
                   /\ UNCHANGED deviceVars
    /\ UNCHANGED <<usageVars, endpointVars, recorded, sync, refresh>>

\* one requested content id: delete on the TV, then the database record and the thumbnail
DeleteItem ==
    /\ delete.pc = "items"
    /\ \E device_ok, catalog_ok, thumbnail_ok \in BOOLEAN :
        LET c == delete.tv_content_ids[delete.next]
            last == delete.next + 1 > Len(delete.tv_content_ids)
            step == [delete EXCEPT !.next = @ + 1,
                                   !.pc = IF last THEN "done" ELSE "items",
                                   !.session = IF last THEN "closed" ELSE @]
        IN IF device_ok
           THEN /\ DeviceDelete({c})
                /\ mappings' = IF catalog_ok THEN delete_by_tv_content_id(mappings, c)
                               ELSE mappings
                /\ thumbnails' = IF thumbnail_ok THEN thumbnails \ {c} ELSE thumbnails
                /\ delete' = [step EXCEPT !.deleted = Append(@, c)]
           ELSE /\ catalog_ok /\ thumbnail_ok
                /\ delete' = [step EXCEPT !.failed = Append(@, c)]
                /\ UNCHANGED <<catalogVars, deviceVars>>
    /\ UNCHANGED <<usageVars, endpointVars, recorded, sync, refresh>>

\* the response (the lists, or the error) has been sent
DeleteReturn ==
    /\ delete.pc \in {"done", "failed"}
    /\ delete' = IdleDelete
    /\ UNCHANGED <<usageVars, endpointVars, recorded, catalogVars, deviceVars, sync, refresh>>

-----------------------------------------------------------------------------
(* main: the streaming sync endpoint                                       *)

StreamLists == TargetLists \cup {<<>>}

\* the items a streaming sync processes: some of the requested ids, in request order
RECURSIVE SubSeqs(_)
SubSeqs(q) ==
    IF q = <<>> THEN {<<>>}
    ELSE LET rest == SubSeqs(Tail(q))
         IN  rest \cup {<<Head(q)>> \o r : r \in rest}

ProgressEvent(current, total, filename) ==
    [type |-> "progress", current |-> current, total |-> total,
     filename |-> filename, error |-> "none"]

CompleteEvent(error) ==
    [type |-> "complete", current |-> 0, total |-> 0,
     filename |-> "none", error |-> error]

IdleStream ==
    [pc |-> "idle", mode |-> "add", gallery_image_ids |-> <<>>, items |-> <<>>,
     current |-> 0, events |-> <<>>]

\* event_generator up to its first event: a request without gallery image ids gets the
\* completion event at once, any other one opens the generator of its mode
StreamBegin(mode, ids) ==
    /\ stream.pc \in {"idle", "closed"}
    /\ IF ids # <<>>
           THEN \E items \in SubSeqs(ids) :
                    stream' = [IdleStream EXCEPT !.pc = "streaming", !.mode = mode,
                                                 !.gallery_image_ids = ids,
                                                 !.items = items]
           ELSE stream' = [IdleStream EXCEPT
                               !.pc = "closed", !.mode = mode,
                               !.events = <<CompleteEvent("requires gallery_image_ids")>>]
    /\ UNCHANGED <<usageVars, recorded, catalogVars, deviceVars, taskVars>>

\* the generator of the mode processes its next item and reports it; event_generator
\* passes the event on
StreamProgress ==
    /\ stream.pc = "streaming"
    /\ stream.current < Len(stream.items)
    /\ stream' = [stream EXCEPT
                      !.current = @ + 1,
                      !.events = Append(@, ProgressEvent(stream.current + 1,
                                               Len(stream.items),
                                               FileName(stream.items[stream.current + 1])))]
    /\ UNCHANGED <<usageVars, recorded, catalogVars, deviceVars, taskVars>>

\* the generator of the mode ends with its completion event, after the last item or
\* when it gives up before
StreamComplete ==
    /\ stream.pc = "streaming"
    /\ stream' = [stream EXCEPT !.pc = "closed",
                                !.events = Append(@, CompleteEvent("none"))]
    /\ UNCHANGED <<usageVars, recorded, catalogVars, deviceVars, taskVars>>

\* the generator of the mode raises: the handler logs and ends the stream with a failed
\* completion event
StreamFail_silent ==
    /\ stream.pc = "streaming"
    /\ stream' = [stream EXCEPT !.pc = "closed"]
    /\ UNCHANGED <<usageVars, recorded, catalogVars, deviceVars, taskVars>>

StreamFail ==
    /\ stream.pc = "streaming"
    /\ stream' = [stream EXCEPT !.pc = "closed",
                                !.events = Append(@, CompleteEvent("raised"))]
    /\ UNCHANGED <<usageVars, recorded, catalogVars, deviceVars, taskVars>>

-----------------------------------------------------------------------------
(* tv_sync_smart: the plans of the two modes, computed from the mappings   *)
(* in the order the catalog returns them                                   *)

\* a mapping as the planner reads it
PlanRow(c, g) == [id |-> c, tv_content_id |-> c, gallery_image_id |-> g]

\* the catalog's answers: some mappings, no two of one content id, in any order
RECURSIVE Listings(_)
Listings(C) ==
    {<<>>} \cup UNION {{<<PlanRow(c, g)>> \o rest :
                            g \in GalleryIds \cup {NoId}, rest \in Listings(C \ {c})}
                       : c \in C}

\* get_tv_content_by_gallery_image_id: the first mapping of the gallery image, None (<<>>)
\* when it has none
RECURSIVE first_by_gallery_image_id(_, _)
first_by_gallery_image_id(listing, g) ==
    IF listing = <<>> THEN <<>>
    ELSE IF Head(listing).gallery_image_id = g THEN <<Head(listing)>>
    ELSE first_by_gallery_image_id(Tail(listing), g)

\* Add mode: images_to_upload
add_images_to_upload(listing, images) ==
    LET Missing(g) == first_by_gallery_image_id(listing, g) = <<>>
    IN SelectSeq(images, Missing)

app_managed_mappings(all_mappings) ==
    LET Managed(m) == m.gallery_image_id # NoId IN SelectSeq(all_mappings, Managed)

\* variant: the scan of the mappings ends at the first one that stays
RECURSIVE reset_mappings_to_delete_prefix(_, _)
reset_mappings_to_delete_prefix(all_mappings, images) ==
    LET managed == app_managed_mappings(all_mappings)
    IN IF managed = <<>> \/ Head(managed).gallery_image_id \in SeqToSet(images)
       THEN <<>>
       ELSE <<Head(managed)>> \o reset_mappings_to_delete_prefix(Tail(managed), images)

\* Reset mode: mappings_to_delete
reset_mappings_to_delete(all_mappings, images) ==
    LET Unselected(m) == m.gallery_image_id \notin SeqToSet(images)
    IN SelectSeq(app_managed_mappings(all_mappings), Unselected)

\* Reset mode: images_to_upload
reset_images_to_upload(all_mappings, images) ==
    LET existing_gallery_ids ==
            {m.gallery_image_id : m \in SeqToSet(app_managed_mappings(all_mappings))}
        Missing(g) == g \notin existing_gallery_ids
    IN SelectSeq(images, Missing)

IdlePlan ==
    [pc |-> "idle", mode |-> "none", gallery_image_ids |-> <<>>, all_mappings |-> <<>>,
     mappings_to_delete |-> {}, images_to_upload |-> {}]

\* the plan of a mode for the target ids and the mappings as returned
Planned(mode, ids, listing) ==
    LET images == GalleryImagesOf(ids)
    IN [pc |-> "planned", mode |-> mode, gallery_image_ids |-> ids,
        all_mappings |-> listing,
        mappings_to_delete |->
            IF mode = "reset" THEN SeqToSet(reset_mappings_to_delete(listing, images))
            ELSE {},
        images_to_upload |->
            IF mode = "reset" THEN SeqToSet(reset_images_to_upload(listing, images))
            ELSE SeqToSet(add_images_to_upload(listing, images))]

\* a first call of the planner
Plan(mode, ids, listing) ==
    /\ plan.pc = "idle"
    /\ plan' = Planned(mode, ids, listing)
    /\ UNCHANGED <<usageVars, recorded, catalogVars, deviceVars, taskVars>>

\* a further call for the same target ids, the catalog returning the same mappings in
\* this order
PlanAgain(listing) ==
    /\ plan.pc = "planned"
    /\ SeqToSet(listing) = SeqToSet(plan.all_mappings)
    /\ plan' = Planned(plan.mode, plan.gallery_image_ids, listing)
    /\ UNCHANGED <<usageVars, recorded, catalogVars, deviceVars, taskVars>>

-----------------------------------------------------------------------------
(* src/tv_sync: the ledger-based legacy sync                               *)

MaxFiles == 2
MaxMtime == 2
MaxLegacyContent == 3
MaxPaths == 2

LegacyFiles == 1..MaxFiles
\* the names a request can list: the files, and one name without a file
LegacyNames == 1..(MaxFiles + 1)
Mtimes == 1..MaxMtime
LegacyContentIds == 1..MaxLegacyContent
LegacyLists == UNION {[1..n -> LegacyNames] : n \in 0..MaxPaths}

nonLegacy ==
    <<usageVars, recorded, catalogVars, deviceVars, taskVars, stream, plan, pairingVars>>

NoEntry == [content_id |-> 0, modified |-> 0]

Entry(c, modified) == [content_id |-> c, modified |-> modified]

\* the file names the ledger tracks
Tracked(ledger) == {f \in LegacyFiles : ledger[f] # NoEntry}

\* sync_file_list: drop the entries whose content the TV does not list; the ledger as it
\* is when the listing fails
sync_file_list(photos, listed, ledger) ==
    IF listed
    THEN [f \in LegacyFiles |->
              IF ledger[f] # NoEntry /\ ledger[f].content_id \in photos
              THEN ledger[f] ELSE NoEntry]
    ELSE ledger

\* current_files: the names of the listed paths that exist, in the order of their first
\* occurrence
RECURSIVE CurrentFiles(_, _)
CurrentFiles(paths, seen) ==
    IF paths = <<>> THEN <<>>
    ELSE IF Head(paths) \in LegacyFiles /\ Head(paths) \notin seen
         THEN <<Head(paths)>> \o CurrentFiles(Tail(paths), seen \cup {Head(paths)})
         ELSE CurrentFiles(Tail(paths), seen)

\* one "File not found" failure for each listed path without a file
RECURSIVE MissingFailures(_)
MissingFailures(paths) ==
    IF paths = <<>> THEN <<>>
    ELSE IF Head(paths) \in LegacyFiles
         THEN MissingFailures(Tail(paths))
         ELSE <<Failure(Head(paths), "File not found")>> \o MissingFailures(Tail(paths))

IdleLegacy ==
    [pc |-> "idle", image_paths |-> <<>>,
     uploaded_files |-> [f \in LegacyFiles |-> NoEntry],
     current_files |-> <<>>, queue |-> <<>>, next |-> 1,
     synced |-> <<>>, failed |-> <<>>, session |-> "none",
     tracked |-> {}, modified |-> {}, unchanged |-> {}, uploads |-> {},
     reuploaded |-> {}, saved |-> FALSE,
     result |-> SyncResult(FALSE, <<>>, <<>>, 0, 0)]

\* the except path: every listed name that is not synced is marked failed, nothing is saved
LegacyRaised(task) ==
    LET NotSynced(n) == n \notin SeqToSet(task.synced)
        rest == SelectSeq(task.image_paths, NotSynced)
        failed == task.failed
                      \o [i \in 1..Len(rest) |-> Failure(rest[i], "Sync operation failed")]
    IN [task EXCEPT !.pc = "done", !.failed = failed,
                    !.result = SyncResult(FALSE, task.synced, failed,
                                          Len(task.image_paths), Len(task.synced))]

\* connect, check the device, load the ledger and drop its stale entries, look the listed
\* paths up
LegacyBegin(paths) ==
    /\ legacy.pc = "idle"
    /\ \E alive, artmode, listed \in BOOLEAN :
        LET task == [IdleLegacy EXCEPT !.image_paths = paths, !.session = "open"]
            not_ready == <<Failure("N/A", "TV is not in art mode")>>
        IN legacy' =
              IF ~alive THEN LegacyRaised(task)
              ELSE IF ~artmode
              THEN [task EXCEPT !.pc = "done", !.session = "closed", !.failed = not_ready,
                                !.result = SyncResult(FALSE, <<>>, not_ready, Len(paths), 0)]
              ELSE [task EXCEPT
                       !.pc = "remove",
                       !.uploaded_files =
                           sync_file_list(legacy_tv.photos, listed, uploaded_files),
                       !.current_files = CurrentFiles(paths, {}),
                       !.failed = MissingFailures(paths)]
    /\ UNCHANGED <<nonLegacy, files, uploaded_files, legacy_tv, path_sync>>

\* new_files: the listed files the ledger does not track
StartAdd(task, ledger) ==
    LET New(f) == ledger[f] = NoEntry
    IN [task EXCEPT !.pc = "add", !.uploaded_files = ledger, !.tracked = Tracked(ledger),
                    !.queue = SelectSeq(task.current_files, New), !.next = 1]

\* 1. remove from the TV the tracked files that are no longer listed
LegacyRemove ==
    /\ legacy.pc = "remove"
    /\ LET ledger == legacy.uploaded_files
           files_to_remove ==
               {ledger[f].content_id :
                    f \in Tracked(ledger) \ SeqToSet(legacy.current_files)}
       IN IF files_to_remove = {}
          THEN /\ legacy' = StartAdd(legacy, ledger)
               /\ UNCHANGED legacy_tv
          ELSE \E delete_ok, listed \in BOOLEAN :
                  IF ~delete_ok
                  THEN /\ legacy' = LegacyRaised(legacy)
                       /\ UNCHANGED legacy_tv
                  ELSE /\ legacy_tv' = [legacy_tv EXCEPT !.photos = @ \ files_to_remove]
                       /\ legacy' = StartAdd(legacy,
                              sync_file_list(legacy_tv.photos \ files_to_remove,
                                             listed, ledger))
    /\ UNCHANGED <<nonLegacy, files, uploaded_files, path_sync>>

\* 2. one new file: upload it and track it
LegacyAdd ==
    /\ legacy.pc = "add"
    /\ legacy.next <= Len(legacy.queue)
    /\ LET f == legacy.queue[legacy.next]
           c == legacy_tv.issued + 1
           step == [legacy EXCEPT !.next = @ + 1, !.uploads = @ \cup {f}]
       IN \/ /\ c \in LegacyContentIds
             /\ legacy_tv' = [photos |-> legacy_tv.photos \cup {c}, issued |-> c]
             /\ legacy' = [step EXCEPT !.uploaded_files[f] = Entry(c, files[f]),
                                       !.synced = Append(@, f)]
          \/ /\ legacy' = [step EXCEPT !.failed = Append(@, Failure(f, "Upload failed"))]
             /\ UNCHANGED legacy_tv
    /\ UNCHANGED <<nonLegacy, files, uploaded_files, path_sync>>

\* modified_files: the listed files whose tracked modification time is not the file's
LegacyPlanUpdate ==
    /\ legacy.pc = "add"
    /\ legacy.next > Len(legacy.queue)
    /\ LET ledger == legacy.uploaded_files
           Modified(f) == ledger[f] # NoEntry /\ ledger[f].modified # files[f]
           modified_files == SelectSeq(legacy.current_files, Modified)
       IN legacy' = [legacy EXCEPT
                        !.pc = "update", !.queue = modified_files, !.next = 1,
                        !.modified = SeqToSet(modified_files),
                        !.unchanged =
                            {f \in SeqToSet(legacy.current_files) \cap legacy.tracked :
                                 ledger[f] # NoEntry /\ ledger[f].modified = files[f]}]
    /\ UNCHANGED <<nonLegacy, files, uploaded_files, legacy_tv, path_sync>>

\* 3. one modified file: remove its old content from the TV, upload it again
LegacyUpdate ==
    /\ legacy.pc = "update"
    /\ legacy.next <= Len(legacy.queue)
    /\ LET f == legacy.queue[legacy.next]
           old_content_id == legacy.uploaded_files[f].content_id
           c == legacy_tv.issued + 1
           step == [legacy EXCEPT !.next = @ + 1, !.uploads = @ \cup {f}]
       IN \/ /\ legacy' = LegacyRaised(legacy)
             /\ UNCHANGED legacy_tv
          \/ /\ c \in LegacyContentIds
             /\ legacy_tv' = [photos |-> (legacy_tv.photos \ {old_content_id}) \cup {c},
                              issued |-> c]
             /\ legacy' = [step EXCEPT
                              !.uploaded_files[f] = Entry(c, files[f]),
                              !.synced = Append(@, f),
                              !.reuploaded = @ \cup {[filename |-> f,
                                                      entry |-> Entry(c, files[f])]}]
          \/ /\ legacy_tv' = [legacy_tv EXCEPT !.photos = @ \ {old_content_id}]
             /\ legacy' = [step EXCEPT !.uploaded_files[f] = NoEntry,
                                       !.failed = Append(@, Failure(f, "Update failed"))]
    /\ UNCHANGED <<nonLegacy, files, uploaded_files, path_sync>>

\* drop the stale entries once more after updates, save the ledger, close, return
LegacySave ==
    /\ legacy.pc = "update"
    /\ legacy.next > Len(legacy.queue)
    /\ \E listed \in BOOLEAN :
        LET ledger == IF legacy.queue # <<>>
                      THEN sync_file_list(legacy_tv.photos, listed, legacy.uploaded_files)
                      ELSE legacy.uploaded_files
            successful == Len(legacy.synced)
            total == Len(legacy.image_paths)
        IN /\ uploaded_files' = ledger
           /\ legacy' = [legacy EXCEPT
                            !.pc = "done", !.session = "closed", !.saved = TRUE,
                            !.uploaded_files = ledger,
                            !.result = SyncResult(
                                successful > 0 \/ total = Cardinality(Tracked(ledger)),
                                legacy.synced, legacy.failed, total, successful)]
    /\ UNCHANGED <<nonLegacy, files, legacy_tv, path_sync>>

\* the response has been sent
LegacyReturn ==
    /\ legacy.pc = "done"
    /\ legacy' = IdleLegacy
    /\ UNCHANGED <<nonLegacy, files, uploaded_files, legacy_tv, path_sync>>

\* a listed file is written again
FileModified(f) ==
    /\ \E t \in Mtimes \ {files[f]} : files' = [files EXCEPT ![f] = t]
    /\ UNCHANGED <<nonLegacy, uploaded_files, legacy_tv, legacy, path_sync>>

\* the TV's user removes a photo
LegacyTvUserDelete(c) ==
    /\ c \in legacy_tv.photos
    /\ legacy_tv' = [legacy_tv EXCEPT !.photos = @ \ {c}]
    /\ UNCHANGED <<nonLegacy, files, uploaded_files, legacy, path_sync>>

-----------------------------------------------------------------------------
(* tv_sync: the path-based legacy sync                                     *)

MaxPathNames == 2

PathKinds == {"jpg", "png", "gif"}

\* a listed path: the name and the extension of its file, and whether the file exists
PathFiles == [name : 1..MaxPathNames, kind : PathKinds, exists : BOOLEAN]

PathLists == UNION {[1..n -> PathFiles] : n \in 0..MaxPaths}

\* Path(image_path).name
PathName(p) == [name |-> p.name, kind |-> p.kind]

IdlePathSync ==
    [pc |-> "idle", image_paths |-> <<>>, next |-> 1, synced |-> <<>>, failed |-> <<>>,
     upload_calls |-> <<>>, uploaded |-> 0, timer |-> "none",
     result |-> SyncResult(FALSE, <<>>, <<>>, 0, 0)]

\* variant: success only when every image was uploaded
overall_success_all(successful, total) == successful = total

\* overall_success = successful > 0
overall_success(successful, total) == successful > 0

\* variant: the except path returns without marking the images
PathSyncBegin_unmarked(paths) ==
    /\ path_sync.pc = "idle"
    /\ \E created \in BOOLEAN :
        LET task == [IdlePathSync EXCEPT !.image_paths = paths]
        IN path_sync' =
              IF created
              THEN [task EXCEPT !.pc = "upload"]
              ELSE [task EXCEPT !.pc = "done",
                                !.result = SyncResult(FALSE, <<>>, <<>>, Len(paths), 0)]
    /\ UNCHANGED <<nonLegacy, files, uploaded_files, legacy_tv, legacy>>

\* create the connection, turn Art Mode on (best effort); the except path when the
\* connection cannot be created: every path is marked failed
PathSyncBegin(paths) ==
    /\ path_sync.pc = "idle"
    /\ \E created \in BOOLEAN :
        LET task == [IdlePathSync EXCEPT !.image_paths = paths]
            failed == [i \in 1..Len(paths) |->
                          Failure(PathName(paths[i]), "Sync operation failed")]
        IN path_sync' =
              IF created
              THEN [task EXCEPT !.pc = "upload"]
              ELSE [task EXCEPT !.pc = "done", !.failed = failed,
                                !.result = SyncResult(FALSE, <<>>, failed, Len(paths), 0)]
    /\ UNCHANGED <<nonLegacy, files, uploaded_files, legacy_tv, legacy>>

\* variant: an upload that raises ends the loop
PathSyncItem_stop ==
    /\ path_sync.pc = "upload"
    /\ path_sync.next <= Len(path_sync.image_paths)
    /\ LET p == path_sync.image_paths[path_sync.next]
           filename == PathName(p)
           step == [path_sync EXCEPT !.next = @ + 1]
           called == [step EXCEPT !.upload_calls = Append(@, filename)]
       IN IF ~p.exists
          THEN path_sync' = [step EXCEPT !.failed = Append(@, Failure(filename,
                                                                     "File not found"))]
          ELSE \/ path_sync' = [step EXCEPT !.failed = Append(@, Failure(filename,
                                                                        "read error"))]
               \/ /\ p.kind \notin {"jpg", "png"}
                  /\ path_sync' = [step EXCEPT
                         !.failed = Append(@, Failure(filename, "Unsupported file type"))]
               \/ /\ p.kind \in {"jpg", "png"}
                  /\ \/ path_sync' = [called EXCEPT !.synced = Append(@, filename),
                                                    !.uploaded = @ + 1]
                     \/ path_sync' = [called EXCEPT
                            !.next = Len(path_sync.image_paths) + 1,
                            !.failed = Append(@, Failure(filename, "upload error"))]
    /\ UNCHANGED <<nonLegacy, files, uploaded_files, legacy_tv, legacy>>

\* one path of the upload loop
PathSyncItem ==
    /\ path_sync.pc = "upload"
    /\ path_sync.next <= Len(path_sync.image_paths)
    /\ LET p == path_sync.image_paths[path_sync.next]
           filename == PathName(p)
           step == [path_sync EXCEPT !.next = @ + 1]
           called == [step EXCEPT !.upload_calls = Append(@, filename)]
       IN IF ~p.exists
          THEN path_sync' = [step EXCEPT !.failed = Append(@, Failure(filename,
                                                                     "File not found"))]
          ELSE \/ path_sync' = [step EXCEPT !.failed = Append(@, Failure(filename,
                                                                        "read error"))]
               \/ /\ p.kind \notin {"jpg", "png"}
                  /\ path_sync' = [step EXCEPT
                         !.failed = Append(@, Failure(filename, "Unsupported file type"))]
               \/ /\ p.kind \in {"jpg", "png"}
                  /\ \/ path_sync' = [called EXCEPT !.synced = Append(@, filename),
                                                    !.uploaded = @ + 1]
                     \/ path_sync' = [called EXCEPT
                            !.failed = Append(@, Failure(filename, "upload error"))]
    /\ UNCHANGED <<nonLegacy, files, uploaded_files, legacy_tv, legacy>>

\* set the slideshow timer when something was uploaded (best effort), return
PathSyncFinish ==
    /\ path_sync.pc = "upload"
    /\ path_sync.next > Len(path_sync.image_paths)
    /\ \E timer_ok \in BOOLEAN :
        LET total == Len(path_sync.image_paths)
            successful == Len(path_sync.synced)
        IN /\ path_sync.synced = <<>> => timer_ok
           /\ path_sync' = [path_sync EXCEPT
                  !.pc = "done",
                  !.timer = IF path_sync.synced = <<>> THEN "none"
                            ELSE IF timer_ok THEN "set" ELSE "failed",
                  !.result = SyncResult(overall_success(successful, total),
                                        path_sync.synced, path_sync.failed,
                                        total, successful)]
    /\ UNCHANGED <<nonLegacy, files, uploaded_files, legacy_tv, legacy>>

\* the caller has the result
PathSyncReturn ==
    /\ path_sync.pc = "done"
    /\ path_sync' = IdlePathSync
    /\ UNCHANGED <<nonLegacy, files, uploaded_files, legacy_tv, legacy>>

-----------------------------------------------------------------------------

(* tv_sync: pairing with the TV (initiate_connection, authorize_with_pin)  *)

\* an error text is the sequence of its characters
Vocabulary ==
    [PIN |-> <<"P", "I", "N">>,
     pin |-> <<"p", "i", "n">>,
     Authorization |-> <<"A", "u", "t", "h", "o", "r", "i", "z", "a", "t", "i", "o", "n">>,
     token |-> <<"t", "o", "k", "e", "n">>,
     Invalid |-> <<"I", "n", "v", "a", "l", "i", "d">>,
     Network |-> <<"N", "e", "t", "w", "o", "r", "k">>,
     timeout |-> <<"t", "i", "m", "e", "o", "u", "t">>,
     shopping |-> <<"s", "h", "o", "p", "p", "i", "n", "g">>,
     Unauthorized |-> <<"U", "n", "a", "u", "t", "h", "o", "r", "i", "z", "e", "d">>]

\* str(e) of the exceptions a call can raise: one word, or two with a blank between
ErrorTexts ==
    LET Words == {Vocabulary[k] : k \in DOMAIN Vocabulary}
    IN  Words \cup {v \o <<" ">> \o w : v \in Words, w \in Words}

\* str.lower(), on the letters of the vocabulary
lower(text) ==
    LET lower_case == [c \in {"A", "I", "N", "P", "U"} |->
                          CASE c = "A" -> "a" [] c = "I" -> "i" [] c = "N" -> "n"
                            [] c = "P" -> "p" [] c = "U" -> "u"]
    IN  [i \in 1..Len(text) |->
            IF text[i] \in DOMAIN lower_case THEN lower_case[text[i]] ELSE text[i]]

\* Python's `needle in text` on strings
Contains(text, needle) ==
    \E i \in 0..(Len(text) - Len(needle)) : SubSeq(text, i + 1, i + Len(needle)) = needle

\* variant: the error text is searched as it is
error_msg_as_is(e) == e

\* error_msg = str(e).lower()
error_msg(e) == lower(e)

\* 'pin' in error_msg or 'authorization' in error_msg or 'token' in error_msg
is_pin_error(e) ==
    \/ Contains(error_msg(e), Vocabulary.pin)
    \/ Contains(error_msg(e), lower(Vocabulary.Authorization))
    \/ Contains(error_msg(e), Vocabulary.token)

\* what a call to the TV library does: it returns (ok, no text) or raises with a text
Outcome(ok, error) == [ok |-> ok, error |-> error]

Outcomes == {Outcome(TRUE, <<>>)} \cup {Outcome(FALSE, e) : e \in ErrorTexts}

PairingResult(success, flag, message) ==
    [success |-> success, flag |-> flag, message |-> message]

IdlePairing ==
    [pc |-> "idle", call |-> "none", creation |-> Outcome(TRUE, <<>>),
     info |-> Outcome(TRUE, <<>>), token_before |-> FALSE, unlinked |-> FALSE,
     token_at_connect |-> "not_connected",
     result |-> PairingResult(FALSE, FALSE, "none")]

nonPairing ==
    <<usageVars, recorded, catalogVars, deviceVars, taskVars, stream, plan, legacyVars>>

\* initiate_connection: (success, requires_pin, message)
initiate_connection(creation, info) ==
    IF ~creation.ok
    THEN PairingResult(FALSE, FALSE, "Connection error")
    ELSE IF info.ok
         THEN PairingResult(TRUE, FALSE, "Connected")
         ELSE IF is_pin_error(info.error)
              THEN PairingResult(TRUE, TRUE, "Please enter the PIN")
              ELSE PairingResult(FALSE, FALSE, "Failed to connect")

\* a call of initiate_connection: the connection object is created, the device info is
\* asked for; the library may write the token file when the TV answers
InitiateConnection(creation, info, token_written) ==
    /\ pairing.pc = "idle"
    /\ ~creation.ok => (info = Outcome(TRUE, <<>>) /\ ~token_written)
    /\ ~info.ok => ~token_written
    /\ pairing' = [IdlePairing EXCEPT
           !.pc = "done", !.call = "initiate_connection",
           !.creation = creation, !.info = info,
           !.token_before = token_file,
           !.token_at_connect = IF token_file THEN "present" ELSE "absent",
           !.result = initiate_connection(creation, info)]
    /\ token_file' = (token_file \/ token_written)
    /\ UNCHANGED nonPairing

\* variant: the token file is left in place
AuthorizeWithPin_keep(mkdir_ok, unlink_ok, creation, info, token_written) ==
    /\ pairing.pc = "idle"
    /\ (~mkdir_ok \/ ~creation.ok) => (info = Outcome(TRUE, <<>>) /\ ~token_written)
    /\ ~mkdir_ok => (unlink_ok /\ creation = Outcome(TRUE, <<>>))
    /\ ~info.ok => ~token_written
    /\ unlink_ok
    /\ LET call == [IdlePairing EXCEPT !.call = "authorize_with_pin",
                                       !.token_before = token_file]
           connect == [call EXCEPT
                          !.creation = creation,
                          !.token_at_connect = IF token_file THEN "present" ELSE "absent"]
       IN IF ~mkdir_ok
          THEN /\ pairing' = [call EXCEPT !.pc = "raised"]
               /\ UNCHANGED token_file
          ELSE IF ~creation.ok
          THEN /\ pairing' = [connect EXCEPT
                      !.pc = "done",
                      !.result = PairingResult(FALSE, FALSE, "Authorization error")]
               /\ UNCHANGED token_file
          ELSE IF info.ok
          THEN /\ token_file' = (token_file \/ token_written)
               /\ pairing' = [connect EXCEPT
                      !.pc = "done", !.info = info,
                      !.result = IF token_file'
                                 THEN PairingResult(TRUE, TRUE, "Successfully authorized")
                                 ELSE PairingResult(TRUE, FALSE, "token not saved")]
          ELSE /\ pairing' = [connect EXCEPT
                      !.pc = "done", !.info = info,
                      !.result = IF is_pin_error(info.error)
                                 THEN PairingResult(FALSE, FALSE,
                                                    "PIN authorization required")
                                 ELSE PairingResult(FALSE, FALSE, "Authorization failed")]
               /\ UNCHANGED token_file
    /\ UNCHANGED nonPairing

\* a call of authorize_with_pin: the token file's directory is made (outside the try: a
\* failure leaves the function as an exception), an existing token file is removed, the
\* connection object is created, the device info is asked for; the library may write the
\* token file when the TV answers
AuthorizeWithPin(mkdir_ok, unlink_ok, creation, info, token_written) ==
    /\ pairing.pc = "idle"
    /\ (~mkdir_ok \/ ~creation.ok) => (info = Outcome(TRUE, <<>>) /\ ~token_written)
    /\ ~mkdir_ok => (unlink_ok /\ creation = Outcome(TRUE, <<>>))
    /\ ~info.ok => ~token_written
    /\ ~token_file => unlink_ok
    /\ ~unlink_ok => (creation = Outcome(TRUE, <<>>) /\ info = Outcome(TRUE, <<>>)
                         /\ ~token_written)
    /\ LET call == [IdlePairing EXCEPT !.call = "authorize_with_pin",
                                       !.token_before = token_file]
           unlinked == [call EXCEPT !.unlinked = token_file]
           connect == [unlinked EXCEPT !.creation = creation,
                                       !.token_at_connect = "absent"]
       IN IF ~mkdir_ok
          THEN /\ pairing' = [call EXCEPT !.pc = "raised"]
               /\ UNCHANGED token_file
          ELSE IF ~unlink_ok
          THEN /\ pairing' = [call EXCEPT
                      !.pc = "done",
                      !.result = PairingResult(FALSE, FALSE, "Authorization error")]
               /\ UNCHANGED token_file
          ELSE IF ~creation.ok
          THEN /\ pairing' = [connect EXCEPT
                      !.pc = "done",
                      !.result = PairingResult(FALSE, FALSE, "Authorization error")]
               /\ token_file' = FALSE
          ELSE IF info.ok
          THEN /\ token_file' = token_written
               /\ pairing' = [connect EXCEPT
                      !.pc = "done", !.info = info,
                      !.result = IF token_file'
                                 THEN PairingResult(TRUE, TRUE, "Successfully authorized")
                                 ELSE PairingResult(TRUE, FALSE, "token not saved")]
          ELSE /\ pairing' = [connect EXCEPT
                      !.pc = "done", !.info = info,
                      !.result = IF is_pin_error(info.error)
                                 THEN PairingResult(FALSE, FALSE,
                                                    "PIN authorization required")
                                 ELSE PairingResult(FALSE, FALSE, "Authorization failed")]
               /\ token_file' = FALSE
    /\ UNCHANGED nonPairing

\* the caller has the result
PairingReturn ==
    /\ pairing.pc \in {"done", "raised"}
    /\ pairing' = IdlePairing
    /\ UNCHANGED <<nonPairing, token_file>>

InitSyncSide ==
    /\ mappings = {}
    /\ tv_content = [c \in ContentIds |-> NoMeta]
    /\ tv_origin = [c \in ContentIds |-> -1]
    /\ thumbnails = {}
    /\ sync = [t \in SyncTasks |-> IdleSync]
    /\ refresh = IdleRefresh
    /\ delete = IdleDelete
    /\ recorded = {}
    /\ stream = IdleStream
    /\ plan = IdlePlan
    /\ files = [f \in LegacyFiles |-> 1]
    /\ uploaded_files = [f \in LegacyFiles |-> NoEntry]
    /\ legacy_tv = [photos |-> {}, issued |-> 0]
    /\ legacy = IdleLegacy
    /\ path_sync = IdlePathSync
    /\ token_file = FALSE
    /\ pairing = IdlePairing

InitUsage ==
    /\ gallery_images = {}
    /\ image_slots = [g \in GalleryIds |-> <<>>]
    /\ usage_count = [s \in SourceIds |-> 0]
    /\ returned = NoCall
    /\ InitSyncSide

syncSide == <<catalogVars, deviceVars, taskVars, recorded, endpointVars>>

NextUsage ==
    \/ \E sl \in SlotLists : create_gallery_image(sl) /\ UNCHANGED syncSide
    \/ \E g \in GalleryIds, sl \in SlotLists :
            update_gallery_image(g, sl) /\ UNCHANGED syncSide
    \/ \E g \in GalleryIds : delete_gallery_image(g) /\ UNCHANGED syncSide
    \/ \E G \in SUBSET (1..(MaxGallery + 1)) :
            delete_multiple_gallery_images(G) /\ UNCHANGED syncSide
    \/ recalculate_usage_counts /\ UNCHANGED syncSide

SpecUsage == InitUsage /\ [][NextUsage]_vars

\* the repository's counting calls on counts that start at 0 or more
InitCalls ==
    /\ gallery_images = {}
    /\ image_slots = [g \in GalleryIds |-> <<>>]
    /\ usage_count \in [SourceIds -> 0..MaxUsage]
    /\ returned = NoCall
    /\ InitSyncSide

NextCalls ==
    \/ \E s \in 1..(MaxSource + 1) : IncrementUsage(s) /\ UNCHANGED syncSide
    \/ \E s \in 1..(MaxSource + 1) : DecrementUsage(s) /\ UNCHANGED syncSide
    \/ \E ids \in BatchLists : BatchIncrementUsage(ids) /\ UNCHANGED syncSide
    \/ \E ids \in BatchLists : BatchDecrementUsage(ids) /\ UNCHANGED syncSide

SpecCalls == InitCalls /\ [][NextCalls]_vars

\* the repository on any stored state: any slots, any stored counts
InitRepo ==
    /\ gallery_images = GalleryIds
    /\ image_slots \in [GalleryIds -> SlotLists]
    /\ usage_count \in [SourceIds -> StoredCounts]
    /\ returned = NoCall
    /\ InitSyncSide

NextRepo ==
    \/ NextCalls
    \/ recalculate_usage_counts /\ UNCHANGED syncSide

SpecRepo == InitRepo /\ [][NextRepo]_vars

\* the sync service runs against a catalog whose gallery images all exist
InitSync ==
    /\ gallery_images = GalleryIds
    /\ image_slots = [g \in GalleryIds |-> <<>>]
    /\ usage_count = [s \in SourceIds |-> 0]
    /\ returned = NoCall
    /\ InitSyncSide

\* no request is being served: SpecSync starts a request only then
Quiet ==
    /\ \A t \in SyncTasks : sync[t].pc = "idle"
    /\ refresh.pc = "idle"
    /\ delete.pc = "idle"

NextSync ==
    \/ \E t \in SyncTasks, mode \in {"add", "reset"}, ids \in TargetLists :
            Quiet /\ SyncBegin(t, mode, ids)
    \/ \E t \in SyncTasks : SyncConnect(t)
    \/ \E t \in SyncTasks : SyncUpload(t)
    \/ \E t \in SyncTasks : SyncRecord(t)
    \/ \E t \in SyncTasks : SyncFinish(t)
    \/ \E t \in SyncTasks : SyncReturn(t)
    \/ Quiet /\ RefreshStart
    \/ RefreshSnapshot
    \/ RefreshRemove
    \/ RefreshAdd
    \/ RefreshUpdate
    \/ RefreshThumbnails
    \/ RefreshCount
    \/ RefreshReturn
    \/ \E ids \in DeleteLists : Quiet /\ DeleteStart(ids)
    \/ DeleteItem
    \/ DeleteReturn
    \/ \E meta \in Metas : TvUserUpload(meta)
    \/ \E c \in ContentIds : TvUserDelete(c)

SpecSync == InitSync /\ [][NextSync]_vars

\* an Add sync and a Refresh served at the same time: the steps of the two handlers
\* and of the TV's user in any interleaving
RaceTargets == {<<1>>}

NextRace ==
    \/ \E t \in SyncTasks, ids \in RaceTargets : SyncBegin(t, "add", ids)
    \/ \E t \in SyncTasks : SyncConnect(t)
    \/ \E t \in SyncTasks : SyncUpload(t)
    \/ \E t \in SyncTasks : SyncRecord(t)
    \/ \E t \in SyncTasks : SyncFinish(t)
    \/ \E t \in SyncTasks : SyncReturn(t)
    \/ RefreshStart
    \/ RefreshSnapshot
    \/ RefreshRemove
    \/ RefreshAdd
    \/ RefreshUpdate
    \/ RefreshThumbnails
    \/ RefreshCount
    \/ RefreshReturn
    \/ \E meta \in Metas : TvUserUpload(meta)
    \/ \E c \in ContentIds : TvUserDelete(c)

SpecRace == InitSync /\ [][NextRace]_vars

\* streaming sync requests, one after the other
NextStream ==
    \/ \E mode \in {"add", "reset"}, ids \in StreamLists :
            StreamBegin(mode, ids) /\ UNCHANGED <<plan, legacyVars, pairingVars>>
    \/ StreamProgress /\ UNCHANGED <<plan, legacyVars, pairingVars>>
    \/ StreamComplete /\ UNCHANGED <<plan, legacyVars, pairingVars>>
    \/ StreamFail /\ UNCHANGED <<plan, legacyVars, pairingVars>>

SpecStream == InitSync /\ [][NextStream]_vars

\* the planner called again and again on the same target ids and mappings
NextPlan ==
    \/ \E mode \in {"add", "reset"}, ids \in TargetLists, listing \in Listings(ContentIds) :
            Plan(mode, ids, listing) /\ UNCHANGED <<stream, legacyVars, pairingVars>>
    \/ \E listing \in Listings(ContentIds) : PlanAgain(listing) /\ UNCHANGED <<stream, legacyVars, pairingVars>>

SpecPlan == InitSync /\ [][NextPlan]_vars

\* ledger-based legacy sync requests, one after the other, while the files are modified
\* and the TV's user removes photos
NextLedger ==
    \/ \E paths \in LegacyLists : LegacyBegin(paths)
    \/ LegacyRemove
    \/ LegacyAdd
    \/ LegacyPlanUpdate
    \/ LegacyUpdate
    \/ LegacySave
    \/ LegacyReturn
    \/ \E f \in LegacyFiles : FileModified(f)
    \/ \E c \in LegacyContentIds : LegacyTvUserDelete(c)

SpecLedger == InitSync /\ [][NextLedger]_vars

\* calls of the path-based legacy sync, one after the other
NextPathSync ==
    \/ \E paths \in PathLists : PathSyncBegin(paths)
    \/ PathSyncItem
    \/ PathSyncFinish
    \/ PathSyncReturn

SpecPathSync == InitSync /\ [][NextPathSync]_vars

\* pairing calls, one after the other, with every outcome of the library's calls
NextPairing ==
    \/ \E creation \in Outcomes, info \in Outcomes, token_written \in BOOLEAN :
            InitiateConnection(creation, info, token_written)
    \/ \E mkdir_ok \in BOOLEAN, unlink_ok \in BOOLEAN, creation \in Outcomes,
            info \in Outcomes, token_written \in BOOLEAN :
            AuthorizeWithPin(mkdir_ok, unlink_ok, creation, info, token_written)
    \/ PairingReturn

SpecPairing == InitSync /\ [][NextPairing]_vars

\* a mapping of content that was on the TV once: the i-th row of a large catalog
StoredMapping(i) ==
    [TVContentMapping(ManualMapping(MaxContent + i, "m1"), "t_post") EXCEPT !.id = i]

\* a catalog with about as many mappings as one page of the list endpoint holds, of
\* content that is no longer on the TV
InitLargeCatalog ==
    /\ gallery_images = GalleryIds
    /\ image_slots = [g \in GalleryIds |-> <<>>]
    /\ usage_count = [s \in SourceIds |-> 0]
    /\ returned = NoCall
    /\ \E n \in (RefreshListLimit - 1)..(RefreshListLimit + 1) :
            mappings = {StoredMapping(i) : i \in 1..n}
    /\ tv_content = [c \in ContentIds |-> NoMeta]
    /\ tv_origin = [c \in ContentIds |-> -1]
    /\ thumbnails = {}
    /\ sync = [t \in SyncTasks |-> IdleSync]
    /\ refresh = IdleRefresh
    /\ delete = IdleDelete
    /\ recorded = {}
    /\ stream = IdleStream
    /\ plan = IdlePlan
    /\ files = [f \in LegacyFiles |-> 1]
    /\ uploaded_files = [f \in LegacyFiles |-> NoEntry]
    /\ legacy_tv = [photos |-> {}, issued |-> 0]
    /\ legacy = IdleLegacy
    /\ path_sync = IdlePathSync
    /\ token_file = FALSE
    /\ pairing = IdlePairing

\* Refresh requests on the large catalog, every delete of the remove loop succeeding,
\* while the TV's user adds and removes content
NextLargeCatalog ==
    \/ RefreshStart
    \/ RefreshSnapshot
    \/ RemoveMappings({})
    \/ RefreshAdd
    \/ RefreshUpdate
    \/ RefreshThumbnails
    \/ RefreshCount
    \/ RefreshReturn
    \/ \E meta \in Metas : TvUserUpload(meta)
    \/ \E c \in ContentIds : TvUserDelete(c)

SpecLargeCatalog == InitLargeCatalog /\ [][NextLargeCatalog]_vars

-----------------------------------------------------------------------------
(* Properties                                                              *)

(* C1: after any sequence of gallery-image create, update, delete and      *)
(* delete-multiple operations, every SourceImage's usage_count equals the  *)
(* number of ImageSlot rows whose source_image_id is that SourceImage.      *)
C1_UsageEqualsSlotRows ==
    \A s \in SourceIds : usage_count[s] = SlotCount(image_slots, s)

\* the step deletes mapping m: no row has its id afterwards
Deleted(m) == \A n \in mappings' : n.id # m.id

(* C2, as stated: a manual mapping (gallery_image_id null) is removed only  *)
(* by Refresh, and only when the listing Refresh read lacks the mapping's   *)
(* content id.                                                              *)
C2_ManualRemovedOnlyByReconciler ==
    [][\A m \in mappings :
          (m.gallery_image_id = NoId /\ Deleted(m))
              => /\ refresh.pc = "remove"
                 /\ refresh.tv_content_metadata[m.tv_content_id] = NoMeta]_vars

(* C2, amended: a manual mapping is never deleted by an Add or Reset sync; *)
(* it is removed only by Refresh, when the listing Refresh read lacks its   *)
(* content id, or by the delete endpoint, for a requested content id whose  *)
(* delete on the TV succeeded.                                              *)
C2_ManualRemoval ==
    [][\A m \in mappings :
          (m.gallery_image_id = NoId /\ Deleted(m))
              => /\ \A t \in SyncTasks : sync'[t] = sync[t]
                 /\ \/ /\ refresh.pc = "remove"
                       /\ refresh.tv_content_metadata[m.tv_content_id] = NoMeta
                    \/ /\ delete.pc = "items"
                       /\ delete.tv_content_ids[delete.next] = m.tv_content_id
                       /\ delete'.deleted = Append(delete.deleted, m.tv_content_id)
                       /\ tv_content'[m.tv_content_id] = NoMeta]_vars

(* C2, witness: Refresh has just removed a manual mapping whose content id *)
(* its listing lacks.                                                       *)
C2_RefreshRemovedManual ==
    /\ refresh.pc = "add"
    /\ \E m \in refresh.db_mappings :
          /\ m.gallery_image_id = NoId
          /\ refresh.tv_content_metadata[m.tv_content_id] = NoMeta
          /\ get_by_tv_content_id(mappings, m.tv_content_id) = {}

(* C3: in Reset mode the plan's mappings to delete are exactly the          *)
(* app-managed mappings whose gallery id is not among the targets, and the  *)
(* images to upload are exactly the targets that have no mapping.           *)
C3_ResetPlan ==
    [][\A t \in SyncTasks :
          (sync[t].pc = "idle" /\ sync'[t].mode = "reset")
              => LET targets == {g \in SeqToSet(sync'[t].gallery_image_ids) :
                                    g \in gallery_images}
                 IN /\ sync'[t].mappings_to_delete =
                           {m \in mappings : /\ m.gallery_image_id # NoId
                                             /\ m.gallery_image_id \notin targets}
                    /\ SeqToSet(sync'[t].images_to_upload) =
                           {g \in targets : \A m \in mappings : m.gallery_image_id # g}]_vars

(* C4: in Add mode the images to upload are the targets that have no        *)
(* mapping, in request order; only those are uploaded, and each of them has *)
(* an outcome when the run reaches its end; no step of the run takes        *)
(* content off the TV, and none deletes or changes an existing mapping.     *)
C4_AddMode ==
    [][\A t \in SyncTasks :
          (sync'[t] # sync[t] /\ sync'[t].mode = "add")
              => LET task == sync[t]
                     ids == sync'[t].gallery_image_ids
                     Unmapped(g) == /\ g \in gallery_images
                                    /\ \A m \in mappings : m.gallery_image_id # g
                 IN /\ mappings \subseteq mappings'
                    /\ \A c \in ContentIds :
                          tv_content[c] # NoMeta => tv_content'[c] = tv_content[c]
                    /\ task.pc = "idle" =>
                          sync'[t].images_to_upload = SelectSeq(ids, Unmapped)
                    /\ \A c \in ContentIds :
                          tv_origin'[c] # tv_origin[c] =>
                              /\ task.pc = "upload"
                              /\ tv_origin'[c] = task.images_to_upload[task.next]
                    /\ task.pc = "finish" =>
                          Len(task.synced) + Len(task.failed) =
                              Len(task.images_to_upload)
                              + Cardinality({i \in DOMAIN ids : ids[i] \notin gallery_images})]_vars

(* C4, witness: targets [1, 2] with a mapping for 1 only; only 2 was        *)
(* uploaded and the result is synced = [2.jpg], failed = [].                *)
C4_ScenarioB ==
    \E t \in SyncTasks :
        /\ sync[t].pc = "done"
        /\ sync[t].mode = "add"
        /\ sync[t].gallery_image_ids = <<1, 2>>
        /\ sync[t].images_to_upload = <<2>>
        /\ sync[t].result.synced = <<FileName(2)>>
        /\ sync[t].result.failed = <<>>

(* C5, as stated: for an upload item whose device upload succeeded, exactly *)
(* one mapping is created with the image's id, the content id the device    *)
(* returned and status synced, and the filename is added to synced.         *)
C5_UploadCreatesMapping ==
    [][\A t \in SyncTasks :
          (sync'[t] # sync[t] /\ sync[t].pc = "record")
              => LET task == sync[t]
                     g == task.images_to_upload[task.next]
                 IN /\ \E m \in mappings' \ mappings :
                          /\ mappings' = mappings \cup {m}
                          /\ m.gallery_image_id = g
                          /\ m.tv_content_id = task.content_id
                          /\ m.sync_status = "synced"
                    /\ sync'[t].synced = Append(task.synced, FileName(g))]_vars

(* C5, amended: for each upload item, when the device upload succeeds and   *)
(* the catalog saves the mapping, exactly one mapping is created with the   *)
(* image's id, the returned content id and status synced, and the filename  *)
(* is added to synced; when the upload fails, or the mapping cannot be      *)
(* saved, no mapping is created or changed and {filename, error} is added   *)
(* to failed; in every case the next item of the plan is attempted.         *)
C5_UploadItem ==
    [][\A t \in SyncTasks :
          (sync'[t] # sync[t] /\ sync[t].pc \in {"upload", "record"})
              => LET task == sync[t]
                     after == sync'[t]
                     g == task.images_to_upload[task.next]
                     Moved == /\ after.next = task.next + 1
                              /\ after.pc = IF task.next < Len(task.images_to_upload)
                                            THEN "upload" ELSE "finish"
                     Failed == /\ mappings' = mappings
                               /\ after.synced = task.synced
                               /\ Len(after.failed) = Len(task.failed) + 1
                               /\ SubSeq(after.failed, 1, Len(task.failed)) = task.failed
                               /\ after.failed[Len(after.failed)].filename = FileName(g)
                               /\ Moved
                 IN IF task.pc = "record"
                    THEN \/ /\ \E m \in mappings' \ mappings :
                                  /\ mappings' = mappings \cup {m}
                                  /\ m.gallery_image_id = g
                                  /\ m.tv_content_id = task.content_id
                                  /\ m.sync_status = "synced"
                            /\ after.synced = Append(task.synced, FileName(g))
                            /\ after.failed = task.failed
                            /\ Moved
                         \/ Failed
                    ELSE \/ /\ \E c \in ContentIds :
                                  /\ tv_origin[c] = -1
                                  /\ tv_origin'[c] = g
                                  /\ after.content_id = c
                            /\ after.pc = "record"
                            /\ after.next = task.next
                            /\ mappings' = mappings
                            /\ after.synced = task.synced
                            /\ after.failed = task.failed
                         \/ (tv_origin' = tv_origin /\ Failed)]_vars

(* C5, witness: of the plan [1, 2] the mapping of 1 could not be saved and  *)
(* the item after it was still uploaded and recorded.                       *)
C5_FailureThenSuccess ==
    \E t \in SyncTasks :
        /\ sync[t].pc = "done"
        /\ sync[t].images_to_upload = <<1, 2>>
        /\ sync[t].result.failed = <<Failure(FileName(1), "Failed to save mapping")>>
        /\ sync[t].result.synced = <<FileName(2)>>
        /\ \E m \in mappings : m.gallery_image_id = 2 /\ m.sync_status = "synced"

C8_RefreshUpdateFrame ==
    [][(refresh.pc = "update" /\ refresh'.pc = "thumbnails")
          => \A m \in mappings :
                \E n \in mappings' :
                    /\ n.id = m.id
                    /\ n.sync_status = m.sync_status
                    /\ n.gallery_image_id = m.gallery_image_id
                    /\ n.tv_content_id = m.tv_content_id
                    /\ n.uploaded_at = m.uploaded_at
                    /\ LET listed == refresh.tv_content_metadata[m.tv_content_id]
                       IN IF listed = NoMeta THEN n.tv_metadata = m.tv_metadata
                          ELSE IF refresh'.write_failed
                               THEN n.tv_metadata \in {m.tv_metadata, listed}
                               ELSE n.tv_metadata = listed]_vars

(* C9: Refresh counts synced_via_app and manual_uploads in the catalog as   *)
(* it stands after its writes; when no write failed, the app-managed        *)
(* mappings of listed content are all counted as synced_via_app, and        *)
(* manual_uploads counts the manual mappings of listed content and the      *)
(* mappings added (listing [A, B, C] with app-managed A, B and no mapping   *)
(* for C: synced_via_app = 2, manual_uploads = 1).                          *)
C9_RefreshCounts ==
    [][(refresh.pc = "count" /\ refresh'.pc = "done")
          => LET L == {c \in ContentIds : refresh.tv_content_metadata[c] # NoMeta}
                 M == refresh.db_mappings
                 result == refresh'.result
             IN /\ result.synced_via_app =
                      Cardinality({m \in mappings : m.gallery_image_id # NoId})
                /\ result.manual_uploads =
                      Cardinality({m \in mappings : m.gallery_image_id = NoId})
                /\ ~refresh.write_failed =>
                      /\ result.synced_via_app =
                            Cardinality({m \in M : /\ m.gallery_image_id # NoId
                                                   /\ m.tv_content_id \in L})
                      /\ result.manual_uploads =
                            Cardinality({m \in M : /\ m.gallery_image_id = NoId
                                                   /\ m.tv_content_id \in L})
                            + Cardinality(L \ {m.tv_content_id : m \in M})]_vars

(* C10: a sync run does not upload an image again while the mapping an      *)
(* earlier run saved for it is still in the catalog.                        *)
C10_NoSecondUpload ==
    [][\A t \in SyncTasks, c \in ContentIds :
          (sync'[t] # sync[t] /\ tv_origin[c] = -1 /\ tv_origin'[c] # -1)
              => \/ FileName(tv_origin'[c]) \in SeqToSet(sync[t].synced)
                 \/ \A c0 \in recorded :
                        \/ tv_origin[c0] # tv_origin'[c]
                        \/ get_by_tv_content_id(mappings, c0) = {}]_vars

(* C11: in Add and in Reset mode, every target id that resolves to no       *)
(* gallery image is in the failed list the operation returns, as a          *)
(* not-found item, on every return path; nothing is uploaded for it; and    *)
(* the plan still holds every target that resolves and has no mapping, each *)
(* with its outcome when the run reaches its end.                           *)
C11_NotFoundReported ==
    [][\A t \in SyncTasks :
          (sync'[t] # sync[t] /\ sync'[t].pc # "idle")
              => LET task == sync[t]
                     after == sync'[t]
                     ids == after.gallery_image_ids
                     missing == {i \in DOMAIN ids : ids[i] \notin gallery_images}
                     Unmapped(g) == /\ g \in gallery_images
                                    /\ \A m \in mappings : m.gallery_image_id # g
                 IN /\ (after.pc = "done" /\ task.pc # "done") =>
                          \A i \in missing :
                              \E j \in DOMAIN after.result.failed :
                                  after.result.failed[j] =
                                      Failure(IdName(ids[i]),
                                              "Gallery image not found in database")
                    /\ \A c \in ContentIds :
                          tv_origin'[c] # tv_origin[c] => tv_origin'[c] \in gallery_images
                    /\ (task.pc = "idle" /\ after.pc = "connect") =>
                          after.images_to_upload = SelectSeq(ids, Unmapped)
                    /\ task.pc = "finish" =>
                          Len(task.synced) + Len(task.failed) =
                              Len(task.images_to_upload) + Cardinality(missing)]_vars

(* C12: the success flag a sync returns is true exactly when at least one   *)
(* upload or one device delete of the run succeeded, or the plan was empty  *)
(* (no target to upload, no mapping to delete); it is false when every      *)
(* upload and delete that was attempted failed.                             *)
C12_SuccessFlag ==
    [][\A t \in SyncTasks :
          (sync'[t].pc = "done" /\ sync[t].pc # "done")
              => LET task == sync[t]
                     after == sync'[t]
                     targets == {g \in SeqToSet(after.gallery_image_ids) :
                                    g \in gallery_images}
                     uploaded ==
                         \/ after.synced # <<>>
                         \/ \E i \in DOMAIN after.failed :
                                after.failed[i].error = "Failed to save mapping"
                     plan_empty ==
                         IF task.pc = "idle"
                         THEN /\ \A g \in targets :
                                    \E m \in mappings : m.gallery_image_id = g
                              /\ after.mode = "reset" =>
                                    \A m \in mappings :
                                        m.gallery_image_id \in targets \cup {NoId}
                         ELSE /\ task.images_to_upload = <<>>
                              /\ task.mappings_to_delete = {}
                 IN after.result.success =
                        (uploaded \/ after.tv_deleted \/ plan_empty)]_vars

(* C13: a sync or a Refresh that has returned or raised has closed the      *)
(* device session it opened, whatever the exit path.                        *)
C13_SessionClosed ==
    /\ \A t \in SyncTasks : sync[t].pc = "done" => sync[t].session # "open"
    /\ refresh.pc \in {"done", "failed"} => refresh.session # "open"

(* C14: when the TV is unreachable or not in art mode, a sync ends at the   *)
(* connection as one top-level failure, before any item of the plan: the    *)
(* step makes no upload and no delete on the TV, creates and deletes no     *)
(* mapping, and the result has success false, an empty synced list and no   *)
(* per-item failure but the not-found items of planning. (A Reset run ends  *)
(* the same way before it connects, whatever the state of the TV.)          *)
C14_NotReadyAborts ==
    [][\A t \in SyncTasks :
          (/\ sync'[t].pc = "done"
           /\ \/ sync[t].pc = "connect"
              \/ sync[t].pc = "idle" /\ sync'[t].mode = "reset")
              => LET result == sync'[t].result
                 IN /\ mappings' = mappings
                    /\ tv_content' = tv_content
                    /\ tv_origin' = tv_origin
                    /\ result.success = FALSE
                    /\ result.synced = <<>>
                    /\ result.successful = 0
                    /\ result.total = Len(sync'[t].gallery_image_ids)
                    /\ result.failed = NotFoundFailures(sync'[t].gallery_image_ids)]_vars

(* C14, witness: a sync with two images to upload has returned from the     *)
(* connection, the TV not being in art mode, with no item processed.        *)
C14_AbortedNotInArtMode ==
    \E t \in SyncTasks :
        /\ sync[t].pc = "done"
        /\ sync[t].session = "closed"
        /\ Len(sync[t].images_to_upload) = 2
        /\ sync[t].next = 1
        /\ sync[t].result.success = FALSE
        /\ sync[t].result.synced = <<>>

(* C15: when the TV is reachable but not in art mode, Refresh aborts as a   *)
(* whole: it ends with an error, never with counts, and the mappings and    *)
(* the thumbnail directory are left exactly as they were.                   *)
C15_RefreshNotReady ==
    [][/\ (/\ refresh.pc = "idle"
           /\ refresh'.pc # "idle"
           /\ refresh'.session = "closed")
              => /\ refresh'.pc = "failed"
                 /\ mappings' = mappings
                 /\ thumbnails' = thumbnails
       /\ refresh.pc = "failed"
              => /\ refresh'.pc \in {"failed", "idle"}
                 /\ mappings' = mappings
                 /\ thumbnails' = thumbnails]_vars

(* C15, witness: a Refresh has aborted on a TV that is not in art mode,     *)
(* with mappings in the catalog and files in the thumbnail directory.       *)
C15_AbortedWithContent ==
    /\ refresh.pc = "failed"
    /\ refresh.session = "closed"
    /\ mappings # {}
    /\ thumbnails # {}

(* C16: starting from counts of 0 or more, after any sequence of            *)
(* increment_usage, decrement_usage, batch_increment_usage and              *)
(* batch_decrement_usage calls on any source image ids, every SourceImage's *)
(* usage_count is 0 or more.                                                *)
C16_NonNegative ==
    \A s \in SourceIds : usage_count[s] >= 0

(* C16, witness: a batch of two decrements has run into the floor: both     *)
(* calls succeeded, an underflow was logged, and the counts are 0.          *)
C16_BatchAtFloor ==
    /\ returned.op = "batch_decrement_usage"
    /\ returned.count = 2
    /\ returned.error_logged
    /\ \A s \in SourceIds : usage_count[s] = 0

(* C17: decrement_usage on an existing source image whose count is 0 or     *)
(* less leaves the count at 0 and returns True, the underflow is not an     *)
(* error for the caller; with a count above 0 it lowers the count by        *)
(* exactly 1; no other count changes.                                       *)
C17_DecrementFloor ==
    [][(returned'.op = "decrement_usage" /\ returned'.id \in SourceIds)
          => LET s == returned'.id
             IN /\ returned'.ok = TRUE
                /\ usage_count[s] <= 0 => usage_count'[s] = 0
                /\ usage_count[s] > 0 => usage_count'[s] = usage_count[s] - 1
                /\ \A o \in SourceIds \ {s} : usage_count'[o] = usage_count[o]]_vars

(* C17, witness: decrement_usage has met a count of 0 or less: it logged    *)
(* the underflow, returned True and the count is 0.                         *)
C17_DecrementAtFloor ==
    /\ returned.op = "decrement_usage"
    /\ returned.id \in SourceIds
    /\ returned.error_logged
    /\ returned.ok
    /\ usage_count[returned.id] = 0

(* C18: after recalculate_all_usage_counts, whatever the stored counts were *)
(* before, every SourceImage's usage_count is the number of ImageSlots with *)
(* that source_image_id (0 when there is none); a second run right after    *)
(* leaves every usage_count unchanged.                                      *)
C18_RecalculateExact ==
    [][returned'.op = "recalculate_usage_counts"
          => /\ \A s \in SourceIds :
                   usage_count'[s] =
                       Cardinality({p \in GalleryIds \X (1..MaxSlots) :
                                       /\ p[2] <= Len(image_slots[p[1]])
                                       /\ image_slots[p[1]][p[2]] = s})
             /\ returned.op = "recalculate_usage_counts" => usage_count' = usage_count]_vars

(* C18, witness: a recalculation has run on a catalog where source image 1  *)
(* fills both slots of one gallery image and a slot of the other, and       *)
(* source image 2 fills none: the counts are 3 and 0.                       *)
C18_Recalculated ==
    /\ returned.op = "recalculate_usage_counts"
    /\ image_slots[1] = <<1, 1>>
    /\ image_slots[2] = <<1>>
    /\ usage_count[1] = 3
    /\ usage_count[2] = 0

(* C19: when recalculate_all_usage_counts is run twice in succession with   *)
(* no slot change in between, the second run reports updated_count = 0 and  *)
(* negative_counts_corrected = 0. (A state a run leaves is the state of a   *)
(* second run when running again reproduces it, report included.)           *)
C19_SecondRunReport ==
    (/\ returned.op = "recalculate_usage_counts"
     /\ usage_count = recalculate_all_usage_counts(image_slots)
     /\ returned.summary = recalculate_summary(usage_count, image_slots))
        => /\ returned.summary.updated_count = 0
           /\ returned.summary.negative_counts_corrected = 0

(* C20: when update_gallery_image replaces a gallery image's slots, each    *)
(* source image referenced by an old slot and by no new slot is decremented *)
(* once (not below 0), each one referenced by a new slot and by no old slot *)
(* is incremented once, and one referenced before and after, or by neither, *)
(* keeps its count, whatever the number of slots that reference it.         *)
C20_UpdateBySetDifference ==
    [][returned'.op = "update_gallery_image"
          => LET g == returned'.id
                 old == image_slots[g]
                 new == image_slots'[g]
                 OldRef(s) == \E i \in DOMAIN old : old[i] = s
                 NewRef(s) == \E i \in DOMAIN new : new[i] = s
             IN \A s \in SourceIds :
                   usage_count'[s] =
                       IF OldRef(s) /\ ~NewRef(s)
                       THEN (IF usage_count[s] <= 0 THEN 0 ELSE usage_count[s] - 1)
                       ELSE IF NewRef(s) /\ ~OldRef(s)
                       THEN usage_count[s] + 1
                       ELSE usage_count[s]]_vars

(* C20, witness: an update has put source image 1 in both slots of gallery  *)
(* image 1, the only gallery image that refers to it: its count is 1.       *)
C20_TwoSlotsOneIncrement ==
    /\ returned.op = "update_gallery_image"
    /\ returned.id = 1
    /\ image_slots[1] = <<1, 1>>
    /\ \A i \in DOMAIN image_slots[2] : image_slots[2][i] # 1
    /\ usage_count[1] = 1

(* C21: batch_increment_usage and batch_decrement_usage apply the           *)
(* single-item operation to every id of the collection in turn: a source    *)
(* image is incremented (decremented, not below 0) once per occurrence of   *)
(* its id; an id that resolves to no SourceImage is skipped, changes no     *)
(* count and does not stop the batch; the number returned is the number of  *)
(* ids that resolved.                                                       *)
C21_BatchPerItem ==
    [][returned'.op \in {"batch_increment_usage", "batch_decrement_usage"}
          => LET ids == returned'.ids
                 Occ(s) == Cardinality({i \in DOMAIN ids : ids[i] = s})
             IN /\ returned'.count = Cardinality({i \in DOMAIN ids : ids[i] \in SourceIds})
                /\ \A s \in SourceIds :
                      usage_count'[s] =
                          IF Occ(s) = 0 THEN usage_count[s]
                          ELSE IF returned'.op = "batch_increment_usage"
                          THEN usage_count[s] + Occ(s)
                          ELSE IF usage_count[s] <= Occ(s) THEN 0
                          ELSE usage_count[s] - Occ(s)]_vars

(* C21, witness: a batch increment of an id of no SourceImage followed by   *)
(* the id of source image 1 has returned 1 and source image 1 is counted.   *)
C21_SkippedThenApplied ==
    /\ returned.op = "batch_increment_usage"
    /\ returned.ids = <<MaxSource + 1, 1>>
    /\ returned.count = 1
    /\ usage_count[1] >= 1

(* C22: no two TVContentMapping rows have the same tv_content_id, in any    *)
(* interleaving of a sync and a Refresh: a create for a content id that     *)
(* already has a mapping is rejected and leaves the existing mapping, and   *)
(* every other one, as it was, whether it comes from a sync upload or from  *)
(* Refresh adding a manual mapping.                                         *)
C22_UniqueContentId ==
    [][/\ \A m, n \in mappings' : m.tv_content_id = n.tv_content_id => m = n
       /\ \A t \in SyncTasks :
             (sync[t].pc = "record" /\ sync'[t] # sync[t]) =>
                 /\ mappings \subseteq mappings'
                 /\ get_by_tv_content_id(mappings, sync[t].content_id) # {}
                        => mappings' = mappings
       /\ (refresh.pc = "add" /\ refresh' # refresh) =>
             /\ mappings \subseteq mappings'
             /\ \A m \in mappings' \ mappings :
                   get_by_tv_content_id(mappings, m.tv_content_id) = {}]_vars

(* C22, witness: a sync uploaded image 1 as content c, a Refresh running at *)
(* the same time added the manual mapping of c first, and the sync's create *)
(* was rejected: c has one mapping, the manual one.                         *)
C22_SyncCreateRejected ==
    \E t \in SyncTasks, c \in ContentIds :
        /\ tv_origin[c] = 1
        /\ \E i \in DOMAIN sync[t].failed :
               sync[t].failed[i] = Failure(FileName(1), "Failed to save mapping")
        /\ \E m \in mappings : m.tv_content_id = c /\ m.sync_status = "manual"
        /\ refresh.pc \notin {"idle", "failed"}

(* C23: a streaming sync delivers one progress event per processed item,   *)
(* in processing order (the i-th event is the progress of the i-th item),  *)
(* then exactly one completion event, which is the last event of the       *)
(* stream: nothing follows it, also when the generator raised part-way or  *)
(* the request had no gallery image ids.                                   *)
C23_StreamEvents ==
    [][LET e == stream'.events
           n == Len(stream'.events)
       IN  /\ \A i \in 1..n : e[i].type = "complete" => i = n
           /\ \A i \in 1..n :
                  e[i].type = "progress" =>
                      /\ i <= Len(stream'.items)
                      /\ e[i] = ProgressEvent(i, Len(stream'.items),
                                              FileName(stream'.items[i]))
           /\ Cardinality({i \in 1..n : e[i].type = "progress"}) = stream'.current
           /\ stream'.pc = "closed" => (n >= 1 /\ e[n].type = "complete")
           /\ stream'.pc = "streaming" => \A i \in 1..n : e[i].type = "progress"
           /\ (stream.pc = "closed" /\ stream'.pc = "closed") =>
                  (stream'.gallery_image_ids = <<>> /\ n = 1)]_vars

\* a stream that processed one of its two items, then raised, has been closed
C23_FailedPartWay ==
    /\ stream.pc = "closed"
    /\ Len(stream.items) = 2
    /\ stream.current = 1
    /\ Len(stream.events) = 2
    /\ stream.events[2] = CompleteEvent("raised")

(* C24: a failure while reading the slideshow settings or pushing them to  *)
(* the device at the end of a sync never changes the sync's result: the    *)
(* request returns the success, synced, failed, total and successful that  *)
(* it returns when the push succeeds, and the mappings written earlier     *)
(* stay in place.                                                          *)
C24_SlideshowBestEffort ==
    [][\A t \in SyncTasks :
          (sync[t].pc = "finish" /\ sync'[t] # sync[t]) =>
              LET synced == sync[t].synced
                  pushed == IF sync[t].mode = "reset"
                            THEN Len(synced) > 0 \/ sync[t].mappings_to_delete # {}
                            ELSE Len(synced) > 0
              IN  /\ sync'[t].pc = "done"
                  /\ sync'[t].result =
                         SyncResult(pushed, synced, sync[t].failed,
                                    Len(sync[t].gallery_image_ids), Len(synced))
                  /\ mappings' = mappings]_vars

\* a sync that saved a mapping has returned success although the push of the slideshow
\* settings failed
C24_PushFailedAfterUpload ==
    \E t \in SyncTasks :
        /\ sync[t].pc = "done"
        /\ sync[t].slideshow = "push_failed"
        /\ sync[t].result.success
        /\ Len(sync[t].synced) >= 1
        /\ \E m \in mappings : m.tv_content_id \in recorded

(* C25: a failure in the thumbnail step of Refresh (clearing the           *)
(* directory, reading the protocol version, fetching or saving the         *)
(* thumbnails) does not fail the Refresh: the step changes no mapping and  *)
(* no count, the request goes on to count the mappings and returns its     *)
(* counts with the removed, added and updated it had before the step.      *)
C25_ThumbnailBestEffort ==
    [][/\ (refresh.pc = "thumbnails" /\ refresh' # refresh) =>
              /\ refresh'.pc = "count"
              /\ mappings' = mappings
              /\ refresh'.removed = refresh.removed
              /\ refresh'.added = refresh.added
              /\ refresh'.updated = refresh.updated
       /\ (refresh.pc = "count" /\ refresh' # refresh
               /\ refresh.thumbnail_step # "saved") =>
              /\ refresh'.pc = "done"
              /\ mappings' = mappings
              /\ refresh'.result.removed = refresh.removed
              /\ refresh'.result.added = refresh.added
              /\ refresh'.result.updated = refresh.updated
              /\ refresh'.result.total_on_tv = Cardinality(ListedIds(refresh))
       /\ refresh.thumbnail_step \notin {"none", "saved"} => refresh'.pc # "failed"]_vars

\* a Refresh that added a mapping and whose thumbnail fetch failed has returned its
\* counts; the added mapping is in the catalog
C25_FetchFailedAfterAdd ==
    /\ refresh.pc = "done"
    /\ refresh.thumbnail_step = "fetch_failed"
    /\ refresh.result.added >= 1
    /\ \E m \in mappings : m.sync_status = "manual"

(* C26 as stated: in the delete endpoint the ids are processed in order;   *)
(* the mapping and the thumbnail of an id are deleted only after the       *)
(* device delete of that id succeeded; when the device delete of an id     *)
(* fails, its mapping and thumbnail are preserved, the id is reported in   *)
(* failed and the remaining ids are still processed; every requested id    *)
(* ends in exactly one of deleted and failed.                              *)
C26_DeleteEachId ==
    [][/\ (delete.pc = "items" /\ delete' # delete) =>
              LET c == delete.tv_content_ids[delete.next]
                  succeeded == delete'.deleted = Append(delete.deleted, c)
                                   /\ delete'.failed = delete.failed
                  failed == delete'.failed = Append(delete.failed, c)
                                /\ delete'.deleted = delete.deleted
              IN  /\ succeeded \/ failed
                  /\ delete'.next = delete.next + 1
                  /\ delete'.pc = IF delete.next < Len(delete.tv_content_ids)
                                  THEN "items" ELSE "done"
                  /\ mappings' \subseteq mappings
                  /\ thumbnails' \subseteq thumbnails
                  /\ \A m \in mappings \ mappings' :
                         m.tv_content_id = c /\ succeeded /\ c \notin OnTv'
                  /\ \A d \in thumbnails \ thumbnails' :
                         d = c /\ succeeded /\ c \notin OnTv'
                  /\ failed => (mappings' = mappings /\ thumbnails' = thumbnails)
       /\ delete'.pc = "done" =>
              \A c \in SeqToSet(delete'.tv_content_ids) :
                  (c \in SeqToSet(delete'.deleted)) # (c \in SeqToSet(delete'.failed))]_vars

(* C26 as amended: the same, with the last part said of the entries of the *)
(* request: each step appends the id of its entry to exactly one of        *)
(* deleted and failed, so the two lists together hold as many ids as the   *)
(* request has entries and no other ids, and an id requested once is in    *)
(* exactly one of them.                                                    *)
C26_DeleteEachEntry ==
    [][/\ (delete.pc = "items" /\ delete' # delete) =>
              LET c == delete.tv_content_ids[delete.next]
                  succeeded == delete'.deleted = Append(delete.deleted, c)
                                   /\ delete'.failed = delete.failed
                  failed == delete'.failed = Append(delete.failed, c)
                                /\ delete'.deleted = delete.deleted
              IN  /\ succeeded \/ failed
                  /\ delete'.next = delete.next + 1
                  /\ delete'.pc = IF delete.next < Len(delete.tv_content_ids)
                                  THEN "items" ELSE "done"
                  /\ mappings' \subseteq mappings
                  /\ thumbnails' \subseteq thumbnails
                  /\ \A m \in mappings \ mappings' :
                         m.tv_content_id = c /\ succeeded /\ c \notin OnTv'
                  /\ \A d \in thumbnails \ thumbnails' :
                         d = c /\ succeeded /\ c \notin OnTv'
                  /\ failed => (mappings' = mappings /\ thumbnails' = thumbnails)
       /\ delete'.pc = "done" =>
              LET ids == delete'.tv_content_ids
                  Times(q, c) == Cardinality({i \in 1..Len(q) : q[i] = c})
              IN  /\ Len(delete'.deleted) + Len(delete'.failed) = Len(ids)
                  /\ \A c \in ContentIds :
                         Times(delete'.deleted, c) + Times(delete'.failed, c)
                             = Times(ids, c)
                  /\ \A c \in SeqToSet(ids) :
                         Times(ids, c) = 1 =>
                             (c \in SeqToSet(delete'.deleted))
                                 # (c \in SeqToSet(delete'.failed))]_vars

\* a request for two ids has failed on the first, whose mapping and thumbnail are still
\* there, and deleted the second with its mapping
C26_FailedThenDeleted ==
    /\ delete.pc = "done"
    /\ Len(delete.tv_content_ids) = 2
    /\ Len(delete.failed) = 1
    /\ Len(delete.deleted) = 1
    /\ delete.failed[1] = delete.tv_content_ids[1]
    /\ delete.deleted[1] = delete.tv_content_ids[2]
    /\ delete.failed[1] # delete.deleted[1]
    /\ get_by_tv_content_id(mappings, delete.failed[1]) # {}
    /\ delete.failed[1] \in thumbnails
    /\ get_by_tv_content_id(mappings, delete.deleted[1]) = {}

(* C27: planning is deterministic: for the same target ids and the same    *)
(* set of mappings, the set of mappings to delete and the set of images to *)
(* upload are the same on every call, whatever the order in which the      *)
(* catalog returns the mappings.                                           *)
C27_PlanOrderIndependent ==
    [][(plan.pc = "planned" /\ plan'.pc = "planned") =>
          /\ plan'.gallery_image_ids = plan.gallery_image_ids
          /\ SeqToSet(plan'.all_mappings) = SeqToSet(plan.all_mappings)
          /\ plan'.mappings_to_delete = plan.mappings_to_delete
          /\ plan'.images_to_upload = plan.images_to_upload]_vars

\* a Reset plan with a mapping to delete, computed from two mappings returned with the one
\* that stays first
C27_ResetPlanOfTwo ==
    /\ plan.pc = "planned"
    /\ plan.mode = "reset"
    /\ Len(plan.all_mappings) = 2
    /\ plan.all_mappings[1].gallery_image_id \in SeqToSet(plan.gallery_image_ids)
    /\ plan.mappings_to_delete = {plan.all_mappings[2]}

(* C28: in the ledger-based legacy sync a listed file whose modification   *)
(* time differs from the one the ledger records is uploaded again: its old *)
(* content id is deleted from the device; when the upload succeeds the     *)
(* ledger entry holds the new content id and the file's modification time, *)
(* in the request and in the ledger on disk once the request has returned; *)
(* when the upload fails the entry is removed; a listed file whose         *)
(* recorded modification time is the file's is not uploaded again.         *)
C28_ModifiedReuploaded ==
    [][/\ (legacy.pc = "update" /\ legacy.next <= Len(legacy.queue)
               /\ legacy' # legacy) =>
              LET f == legacy.queue[legacy.next]
                  old == legacy.uploaded_files[f].content_id
                  new == legacy_tv'.issued
              IN  /\ old \notin legacy_tv'.photos
                  /\ f \in legacy'.uploads
                  /\ \/ /\ legacy'.synced = Append(legacy.synced, f)
                        /\ new # old
                        /\ new \in legacy_tv'.photos
                        /\ legacy'.uploaded_files[f] = Entry(new, files[f])
                     \/ /\ legacy'.synced = legacy.synced
                        /\ legacy'.failed = Append(legacy.failed,
                                                   Failure(f, "Update failed"))
                        /\ legacy'.uploaded_files[f] = NoEntry
       /\ legacy'.pc = "done" =>
              /\ \A r \in legacy'.reuploaded :
                     uploaded_files'[r.filename] = r.entry
              /\ \A f \in legacy'.modified \cap legacy'.uploads :
                     f \notin {r.filename : r \in legacy'.reuploaded} =>
                         uploaded_files'[f] = NoEntry
       /\ \A f \in legacy'.unchanged : f \notin legacy'.uploads]_vars

(* C29: the path-based sync_images_to_tv returns success true exactly when *)
(* at least one image was uploaded (false for an empty list and when every *)
(* image failed), total equal to the number of requested paths and         *)
(* successful equal to the number of synced filenames.                     *)
C29_PathSyncResult ==
    path_sync.pc = "done" =>
        /\ path_sync.result.success = (path_sync.uploaded >= 1)
        /\ path_sync.result.total = Len(path_sync.image_paths)
        /\ path_sync.result.successful = Len(path_sync.result.synced)
        /\ Len(path_sync.result.synced) = path_sync.uploaded
        /\ path_sync.image_paths = <<>> => ~path_sync.result.success

\* a call with two paths has uploaded one image and failed on the other
C29_PartialSuccess ==
    /\ path_sync.pc = "done"
    /\ Len(path_sync.image_paths) = 2
    /\ path_sync.uploaded = 1
    /\ Len(path_sync.failed) = 1
    /\ path_sync.result.success

(* C30 as stated: in the path-based sync_images_to_tv each path is handled *)
(* on its own: a missing file or an unsupported file type is recorded in   *)
(* failed without an upload call for it, a raised upload error is recorded *)
(* in failed with its message, in each case the remaining paths are still  *)
(* attempted; no filename is in both synced and failed.                    *)
C30_PathsOnTheirOwn ==
    [][/\ (path_sync.pc = "upload" /\ path_sync.next <= Len(path_sync.image_paths)
               /\ path_sync' # path_sync) =>
              LET p == path_sync.image_paths[path_sync.next]
                  filename == PathName(p)
                  called == path_sync'.upload_calls
                                = Append(path_sync.upload_calls, filename)
                  not_called == path_sync'.upload_calls = path_sync.upload_calls
                  synced == path_sync'.synced = Append(path_sync.synced, filename)
                                /\ path_sync'.failed = path_sync.failed
                  FailedWith(error) ==
                      /\ path_sync'.failed =
                             Append(path_sync.failed, Failure(filename, error))
                      /\ path_sync'.synced = path_sync.synced
              IN  /\ ~p.exists => (not_called /\ FailedWith("File not found"))
                  /\ (p.exists /\ p.kind \notin {"jpg", "png"}) =>
                         /\ not_called
                         /\ FailedWith("Unsupported file type")
                                \/ FailedWith("read error")
                  /\ called => (synced \/ FailedWith("upload error"))
                  /\ called \/ not_called
                  /\ synced => called
                  /\ path_sync'.pc = "upload"
                  /\ path_sync'.next = path_sync.next + 1
       /\ \A i \in 1..Len(path_sync'.failed) :
              path_sync'.failed[i].filename \notin SeqToSet(path_sync'.synced)]_vars

(* C30 as amended: the same, with the last part said of the entries of the *)
(* list: each entry adds its filename to exactly one of synced and failed, *)
(* so when the call returns the two lists together have one element for    *)
(* each listed path, and a filename that is listed once is in one of them  *)
(* only.                                                                   *)
C30_EntriesOnTheirOwn ==
    [][/\ (path_sync.pc = "upload" /\ path_sync.next <= Len(path_sync.image_paths)
               /\ path_sync' # path_sync) =>
              LET p == path_sync.image_paths[path_sync.next]
                  filename == PathName(p)
                  called == path_sync'.upload_calls
                                = Append(path_sync.upload_calls, filename)
                  not_called == path_sync'.upload_calls = path_sync.upload_calls
                  synced == path_sync'.synced = Append(path_sync.synced, filename)
                                /\ path_sync'.failed = path_sync.failed
                  FailedWith(error) ==
                      /\ path_sync'.failed =
                             Append(path_sync.failed, Failure(filename, error))
                      /\ path_sync'.synced = path_sync.synced
              IN  /\ ~p.exists => (not_called /\ FailedWith("File not found"))
                  /\ (p.exists /\ p.kind \notin {"jpg", "png"}) =>
                         /\ not_called
                         /\ FailedWith("Unsupported file type")
                                \/ FailedWith("read error")
                  /\ called => (synced \/ FailedWith("upload error"))
                  /\ called \/ not_called
                  /\ synced => called
                  /\ path_sync'.pc = "upload"
                  /\ path_sync'.next = path_sync.next + 1
       /\ path_sync'.pc = "done" =>
              LET paths == path_sync'.image_paths
                  Listed(fn) == Cardinality({i \in 1..Len(paths) :
                                                PathName(paths[i]) = fn})
                  failed_names == {path_sync'.failed[i].filename :
                                       i \in 1..Len(path_sync'.failed)}
              IN  /\ Len(path_sync'.synced) + Len(path_sync'.failed) = Len(paths)
                  /\ \A i \in 1..Len(paths) :
                         Listed(PathName(paths[i])) = 1 =>
                             (PathName(paths[i]) \in SeqToSet(path_sync'.synced))
                                 # (PathName(paths[i]) \in failed_names)]_vars

\* a call has recorded a missing file without an upload call, then uploaded the next path
C30_MissingThenUploaded ==
    /\ path_sync.pc = "done"
    /\ Len(path_sync.image_paths) = 2
    /\ ~path_sync.image_paths[1].exists
    /\ path_sync.failed = <<Failure(PathName(path_sync.image_paths[1]), "File not found")>>
    /\ path_sync.upload_calls = <<PathName(path_sync.image_paths[2])>>
    /\ path_sync.synced = <<PathName(path_sync.image_paths[2])>>
    /\ PathName(path_sync.image_paths[1]) # PathName(path_sync.image_paths[2])


(* C31: when creating the device connection fails, the path-based sync     *)
(* returns success false, an empty synced list, successful 0, total equal  *)
(* to the number of requested paths, and a failed list with one entry per  *)
(* requested path, in order, each with the path's filename and the         *)
(* connection error; nothing was uploaded.                                 *)
C31_ConnectionFailure ==
    [][(path_sync.pc = "idle" /\ path_sync'.pc = "done") =>
          LET paths == path_sync'.image_paths
              result == path_sync'.result
          IN  /\ result.success = FALSE
              /\ result.synced = <<>>
              /\ result.successful = 0
              /\ result.total = Len(paths)
              /\ Len(result.failed) = Len(paths)
              /\ \A i \in 1..Len(paths) :
                     result.failed[i] =
                         Failure(PathName(paths[i]), "Sync operation failed")
              /\ path_sync'.upload_calls = <<>>]_vars

\* a call for two existing images has returned through the connection error
C31_TwoMarkedFailed ==
    /\ path_sync.pc = "done"
    /\ Len(path_sync.image_paths) = 2
    /\ \A i \in 1..2 : path_sync.image_paths[i].exists
    /\ path_sync.result.total = 2
    /\ Len(path_sync.result.failed) = 2
    /\ \A i \in 1..2 : path_sync.result.failed[i].error = "Sync operation failed"

\* the error text has the word somewhere in it, in upper or lower case
Mentions(e, word) ==
    \E i \in 1..Len(e), j \in 1..Len(e) : lower(SubSeq(e, i, j)) = word

MentionsPairing(e) ==
    \/ Mentions(e, <<"p", "i", "n">>)
    \/ Mentions(e, <<"a", "u", "t", "h", "o", "r", "i", "z", "a", "t", "i", "o", "n">>)
    \/ Mentions(e, <<"t", "o", "k", "e", "n">>)

(* C32: initiate_connection returns (success true, requires_pin false)     *)
(* when the device-info call succeeds; (true, true) when that call fails   *)
(* with an error whose text has pin, authorization or token in it, in any  *)
(* case; (false, false) when it fails with any other error or when the     *)
(* connection object cannot be created; requires_pin is never true         *)
(* together with success false.                                            *)
C32_InitiateConnection ==
    (pairing.pc = "done" /\ pairing.call = "initiate_connection") =>
        LET result == pairing.result
            Returns(success, requires_pin) ==
                result.success = success /\ result.flag = requires_pin
        IN  /\ (pairing.creation.ok /\ pairing.info.ok) => Returns(TRUE, FALSE)
            /\ (pairing.creation.ok /\ ~pairing.info.ok
                    /\ MentionsPairing(pairing.info.error)) => Returns(TRUE, TRUE)
            /\ (pairing.creation.ok /\ ~pairing.info.ok
                    /\ ~MentionsPairing(pairing.info.error)) => Returns(FALSE, FALSE)
            /\ ~pairing.creation.ok => Returns(FALSE, FALSE)
            /\ ~(result.flag /\ ~result.success)

\* the device-info call failed with "Authorization timeout": a PIN is asked for
C32_PinAskedFor ==
    /\ pairing.pc = "done"
    /\ pairing.call = "initiate_connection"
    /\ pairing.creation.ok
    /\ pairing.info = Outcome(FALSE, Vocabulary.Authorization \o <<" ">> \o Vocabulary.timeout)
    /\ pairing.result = PairingResult(TRUE, TRUE, "Please enter the PIN")

(* C33: authorize_with_pin removes an existing token file before it        *)
(* connects; when the device-info call then succeeds it returns success    *)
(* true with token_saved equal to whether a token file exists afterwards;  *)
(* on any error (removing the token file, creating the connection, a       *)
(* device-info error about PIN, authorization or token, or any other       *)
(* device-info error) it returns success false and token_saved false.      *)
C33_AuthorizeWithPin ==
    (pairing.pc = "done" /\ pairing.call = "authorize_with_pin") =>
        LET result == pairing.result
            connected == pairing.token_at_connect # "not_connected"
        IN  /\ pairing.token_at_connect # "present"
            /\ connected => (pairing.unlinked = pairing.token_before)
            /\ (connected /\ pairing.creation.ok /\ pairing.info.ok) =>
                   (result.success /\ result.flag = token_file)
            /\ (~connected \/ ~pairing.creation.ok \/ ~pairing.info.ok) =>
                   (~result.success /\ ~result.flag)

\* a call found a token file, removed it, and the TV answered and a new token was saved
C33_TokenReplaced ==
    /\ pairing.pc = "done"
    /\ pairing.call = "authorize_with_pin"
    /\ pairing.token_before
    /\ pairing.unlinked
    /\ pairing.token_at_connect = "absent"
    /\ pairing.result = PairingResult(TRUE, TRUE, "Successfully authorized")
    /\ token_file

(* C34: in every reachable state at most one TVContentMapping row has a    *)
(* given non-null gallery_image_id, so each gallery image is uploaded and  *)
(* recorded at most once, also when one request's target id list has the  *)
(* same id more than once.                                                 *)
C34_OneMappingPerGalleryImage ==
    \A m \in mappings, n \in mappings :
        (m.gallery_image_id # NoId /\ m.gallery_image_id = n.gallery_image_id) => m = n

(* C35: after refresh_tv_state returns normally and no catalog write       *)
(* failed, the set of tv_content_ids of all TVContentMapping rows in the   *)
(* catalog equals the set of content ids in the device listing it read,    *)
(* for any number of mappings stored in the catalog.                       *)
C35_CatalogEqualsListing ==
    (refresh.pc = "done" /\ ~refresh.write_failed) =>
        {m.tv_content_id : m \in mappings} = ListedIds(refresh)

(* C36: content uploaded by this system is never recorded as manual: for a *)
(* content id returned by a device upload of a sync, no TVContentMapping   *)
(* with that tv_content_id and a null gallery_image_id ever exists, also   *)
(* when a Refresh runs between the upload and the mapping write, or when   *)
(* the mapping write fails and a Refresh runs later.                       *)
C36_UploadedNeverManual ==
    \A m \in mappings :
        (m.tv_content_id \in ContentIds /\ tv_origin[m.tv_content_id] \in GalleryIds)
            => m.gallery_image_id # NoId

(* C37: every request the sync service makes to list the catalog's         *)
(* mappings asks for a page size the list endpoint accepts, so reading the *)
(* mappings in Reset mode (planning) and in Refresh (snapshot, final       *)
(* count) does not fail on the page size.                                  *)
C37_PageSizeAccepted ==
    [][/\ \A t \in SyncTasks :
              (sync[t].pc = "idle" /\ sync'[t].mode = "reset") => sync'[t].pc = "connect"
       /\ (refresh.pc = "snapshot" /\ refresh' # refresh) => refresh'.pc = "remove"
       /\ (refresh.pc = "count" /\ refresh' # refresh) => refresh'.pc = "done"]_vars

(* C38: recalculate_all_usage_counts reports as negative_counts_corrected  *)
(* the number of source images whose stored usage_count was negative when  *)
(* the call began, and as total_images the number of SourceImage rows.     *)
C38_RecalculateReport ==
    [][returned'.op = "recalculate_usage_counts"
          => /\ returned'.summary.negative_counts_corrected =
                    Cardinality({s \in SourceIds : usage_count[s] < 0})
             /\ returned'.summary.total_images = Cardinality(SourceIds)]_vars

(* C39: when the ledger-based legacy sync returns, every file it uploaded  *)
(* during the call and still tracks has an entry in the persisted ledger   *)
(* holding the content id the device returned, also when a later delete or *)
(* upload step raised and the call returned through its error path.        *)
C39_UploadsPersisted ==
    legacy.pc = "done" =>
        \A f \in SeqToSet(legacy.synced) :
            legacy.uploaded_files[f] # NoEntry =>
                uploaded_files[f].content_id = legacy.uploaded_files[f].content_id

=============================================================================
